---- MODULE Spec2Model ----
(***************************************************************************)
(* ChainPay: the reward settlement engine.                                 *)
(*                                                                         *)
(*   - RewardTreasury.sol      the treasury contract (processReward,       *)
(*                             batchProcessRewards, funding)               *)
(*   - backend/blockchain.go   BlockchainClient: the signing account's     *)
(*                             nonce counter, ProcessReward                *)
(*   - backend main.go         (src/unnamed/part_001) the HTTP and         *)
(*                             WebSocket heartbeat handlers                *)
(*   - frontend/app.js         ChainPayApp: the browser's session counters *)
(*                                                                         *)
(* Fifteen specifications share the definitions below:                     *)
(*   SpecContract  calls made directly to the contract                     *)
(*   SpecAdmin     the contract under its owner's administration           *)
(*   SpecClient    concurrent ProcessReward calls on one BlockchainClient  *)
(*   SpecSerial    ProcessReward calls made one after the other            *)
(*   SpecClaimID   the claim ID computed from pairs of inputs              *)
(*   SpecSettle    heartbeats handled by the server, settled through the   *)
(*                 client on a ledger that mines the submitted             *)
(*                 transactions                                            *)
(*   SpecFanout    sessions that come and go while blockMonitor publishes  *)
(*                 snapshots and broadcastUpdates writes them out          *)
(*   SpecMonitor   blockMonitor polling a ledger that shows it the         *)
(*                 heights 5, 5, 6, 8                                      *)
(*   SpecShutdown  the background loops from start to the shutdown signal, *)
(*                 under fair scheduling                                   *)
(*   SpecConn      the connection handlers and the fan-out taken statement *)
(*                 by statement: locks, unlocked reads, writes that begin  *)
(*                 and end                                                 *)
(*   SpecStats     HTTP heartbeats with the update of s.stats taken        *)
(*                 statement by statement                                  *)
(*   SpecReorg     blockMonitor polling a ledger whose height rises and    *)
(*                 falls                                                   *)
(*   SpecQueue     blockMonitor filling blockUpdates to its capacity,      *)
(*                 the fan-out fairly scheduled                            *)
(*   SpecFunds     the contract's deposits, rewards and withdrawals        *)
(*   SpecBrowser   ChainPayApp handling reward messages                    *)
(*                                                                         *)
(* rewardProcessor (main.go 565-577) receives from Server.rewardQueue, and *)
(* no statement of the program sends on that channel: the goroutine never  *)
(* leaves its select until the context is cancelled, and the model has no  *)
(* action for it but its return.                                           *)
(***************************************************************************)
EXTENDS Integers, Sequences, FiniteSets, Bags, TLC

\* ------------------------------------------------------------------ bounds

\* goroutines that may be inside ProcessReward at the same time
NumWorkers == 3
\* ProcessReward calls made in one run of SpecClient
MaxCalls == 3
\* largest value read from the clock (time.Now().UnixNano())
MaxTime == 2
\* WebSocket connections the server accepts in SpecSettle
NumConns == 1

\* blocks the ledger produces on its own in SpecFanout
MaxHeight == 2
\* successful polls of blockMonitor in one run
MaxPolls == 4
\* heartbeats the sessions of SpecFanout send in one run
FanoutBeats == 1

\* ------------------------------------------------------- program constants

\* capacity of Server.blockUpdates
BlockUpdatesCap == 100

\* the largest batch batchProcessRewards takes: recipients.length <= 100
MaxBatchSize == 100

\* Config.RewardPerHeartbeat, wei per heartbeat
RewardPerHeartbeat == 1000

\* ---------------------------------------------------------------- addresses

\* address(0), common.Address{}
NullAddr == 0
Workers == 1 .. NumWorkers
\* worker w serves the wallet of user w, the account at address w
\* the backend's signing account (BlockchainClient.signerAddress)
SignerAddr == NumWorkers + 1
\* the account that deployed the contract
DeployerAddr == NumWorkers + 2
\* address(this) of the RewardTreasury contract
TreasuryAddr == NumWorkers + 3
\* a contract whose receive() reverts: a payment to it fails
RejectorAddr == NumWorkers + 4
Addrs == 0 .. RejectorAddr

\* ------------------------------------------------------------------ strings

\* A recipient string as the handlers and ProcessReward receive it: the hex
\* form of an address, the empty string, or text that is no hex address.
HexString(a) == [kind |-> "hex", addr |-> a]
EmptyString == [kind |-> "empty", addr |-> NullAddr]
GarbageString == [kind |-> "garbage", addr |-> NullAddr]

\* the recipient checked for emptiness only
IsHexAddress_NonEmpty(s) == s.kind # "empty"

\* common.IsHexAddress: 40 hex digits after an optional 0x prefix
IsHexAddress(s) == s.kind = "hex"

\* common.HexToAddress on a string that IsHexAddress accepted
HexToAddress(s) == s.addr

\* ------------------------------------------------------------------ state

VARIABLES
    \* RewardTreasury's storage: owner, rewardSigner, totalRewardsDistributed,
    \* totalClaimsProcessed, rewardPerHeartbeat, claimedRewards,
    \* userTotalEarnings
    treasury,
    \* the ledger's balance of every address, address(this).balance included
    balances,
    \* the events the contract has emitted, a bag: how often each was emitted
    events,
    \* the value transfers the contract has made, a bag
    transfers,
    \* the last call made to the contract and how it ended
    lastCall,
    \* whether Config.ContractAddress is set (bc.contractAddress is not zero)
    contractMode,
    \* BlockchainClient.currentNonce
    currentNonce,
    \* BlockchainClient.nonceMux: the worker holding it, 0 when it is free
    nonceMux,
    \* each goroutine's place in ProcessReward and the locals it holds there
    calls,
    \* the last value read from time.Now().UnixNano()
    clock,
    \* every SendTransaction issued, in the order the ledger received them
    sendLog,
    \* the ledger's pending transactions of the signing account, by nonce
    txpool,
    \* the ledger's next nonce of the signing account
    chainNonce,
    \* the value PendingNonceAt gave NewBlockchainClient
    startNonce,
    \* heartbeats and direct ProcessReward calls begun so far
    invoked,
    \* Server.stats: TotalHeartbeats, TotalRewards
    stats,
    \* Server.clients: the ClientSession of each connection's goroutine
    sessions,
    \* the outcome messages written to the callers, a bag
    replies,
    \* whether a goroutine has panicked: the process has exited
    crashed,
    \* the background context and the three loops main starts with it: whether
    \* cancel() was called, and whether each loop is running or has returned
    bg,
    \* each WebSocket connection: "none" before the upgrade, "open", "stalled"
    \* while the peer reads nothing and a write to it would wait, "gone" once
    \* the peer has closed it, "closed" once the server has closed it
    conns,
    \* broadcastUpdates: its place in the loop, the snapshot it holds and the
    \* connections of s.clients it has yet to write to
    bcast,
    \* Server.blockUpdates, the channel of snapshots: their heights in order
    blockUpdates,
    \* blockMonitor's local lastBlock
    lastBlock,
    \* the ledger's latest block number
    height,
    \* the heights blockMonitor's successful polls returned, in order
    observed,
    \* the heights blockMonitor sent on blockUpdates, in order
    published,
    \* the block events written to each connection, in order, each with the
    \* outcome of the write
    blockWrites,
    \* Server.statsMux: the goroutine holding it, 0 when it is free
    statsMux,
    \* the goroutines inside conn.WriteJSON on each connection, each named by
    \* the message it is writing
    writing,
    \* the browser's ChainPayApp: heartbeatCount, sessionEarnings, whether it is
    \* watching, and the reward messages it has handled, in order
    browser

contractVars == <<treasury, balances, events, transfers, lastCall>>
clientVars == <<contractMode, currentNonce, nonceMux, calls, clock, sendLog,
                startNonce, invoked>>
ledgerVars == <<txpool, chainNonce, height>>
fanVars == <<conns, bcast, blockUpdates, lastBlock, observed, published,
             blockWrites>>
restVars == <<statsMux, writing, browser>>
serverVars == <<stats, sessions, replies, crashed, bg, fanVars, restVars>>
vars == <<contractVars, clientVars, ledgerVars, serverVars>>

\* ---------------------------------------------------------------- contract

\* wei the treasury is deployed with, in rewards
FundUnits == 2
\* entries in one batchProcessRewards call of the model
MaxBatch == 2
\* claim identifiers the direct callers of the contract choose among
NumClaimIds == 2
\* successful setRewardSigner calls in one run
MaxSignerUpdates == 2
\* setRewardRate and emergencyWithdraw calls that succeed in one run
MaxAdminEvents == 2
\* reward messages the browser handles in one session
MaxMessages == 3
\* TreasuryFunded events before the last plain transfer to the contract
MaxDeposits == 4
\* the blocks the ledger produces beyond the capacity of blockUpdates
QueueSlack == 2

\* The chain state a contract call reads and writes.
World == [t |-> treasury, bal |-> balances, ev |-> events, xfer |-> transfers]

\* emit e: one more occurrence of e in the log
Emit(log, e) == log (+) SetToBag({e})

Reverted(W, reason) == [ok |-> FALSE, err |-> reason, W |-> W]
Succeeded(W) == [ok |-> TRUE, err |-> "", W |-> W]

\* constructor(_rewardSigner) payable, called by deployer with msg.value = value,
\* on a ledger where the deployer holds one more reward to deposit and the
\* signer enough for the transfers it makes itself
Deployed(deployer, signer, value) ==
    [ t |-> [ owner |-> deployer,
              rewardSigner |-> signer,
              totalRewardsDistributed |-> 0,
              totalClaimsProcessed |-> 0,
              rewardPerHeartbeat |-> 1000,
              claimedRewards |-> {},
              userTotalEarnings |-> [a \in Addrs |-> 0] ],
      bal |-> [a \in Addrs |-> IF a = TreasuryAddr THEN value
                                ELSE IF a = deployer THEN RewardPerHeartbeat
                                ELSE IF a = signer
                                THEN MaxCalls * RewardPerHeartbeat
                                ELSE 0],
      ev |-> IF value > 0
             THEN SetToBag({[name |-> "TreasuryFunded", who |-> deployer,
                             amount |-> value, id |-> <<>>]})
             ELSE EmptyBag,
      xfer |-> EmptyBag ]

\* recipient.call{value: amount}(""): the balance moves unless the recipient's
\* code rejects the payment; a payment to the contract itself runs receive().
SendValue(W, to, amount, claimId) ==
    IF to = RejectorAddr
    THEN [success |-> FALSE, W |-> W]
    ELSE [ success |-> TRUE,
           W |-> [ W EXCEPT
                     !.bal = IF to = TreasuryAddr THEN @
                             ELSE [@ EXCEPT ![TreasuryAddr] = @ - amount,
                                            ![to] = @ + amount],
                     !.ev = IF to = TreasuryAddr
                            THEN Emit(@, [name |-> "TreasuryFunded",
                                          who |-> TreasuryAddr,
                                          amount |-> amount, id |-> <<>>])
                            ELSE @,
                     !.xfer = Emit(@, [to |-> to, amount |-> amount,
                                       id |-> claimId]) ] ]

\* the duplicate-claim check left out: no claim counts as processed
AlreadyClaimed_Unchecked(W, claimId) == FALSE

\* require(!claimedRewards[claimId], ...)
AlreadyClaimed(W, claimId) == claimId \in W.t.claimedRewards

\* the statements of processReward without the line that credits the
\* recipient's cumulative earnings
Pay_EarningsForgotten(W, recipient, amount, claimId) ==
    LET W1 == [ W EXCEPT
                  !.t.claimedRewards = @ \cup {claimId},
                  !.t.totalRewardsDistributed = @ + amount,
                  !.t.totalClaimsProcessed = @ + 1 ]
        sent == SendValue(W1, recipient, amount, claimId)
    IN  IF ~sent.success \/ W1.bal[TreasuryAddr] < amount
        THEN Reverted(W, "transfer failed")
        ELSE Succeeded([ sent.W EXCEPT
                           !.ev = Emit(@, [name |-> "RewardClaimed",
                                           who |-> recipient,
                                           amount |-> amount,
                                           id |-> claimId]) ])

\* The statements of processReward after its require checks: the claim is
\* marked, the totals grow, the reward is sent and the event emitted; a failed
\* send reverts the call.
Pay(W, recipient, amount, claimId) ==
    LET W1 == [ W EXCEPT
                  !.t.claimedRewards = @ \cup {claimId},
                  !.t.totalRewardsDistributed = @ + amount,
                  !.t.totalClaimsProcessed = @ + 1,
                  !.t.userTotalEarnings[recipient] = @ + amount ]
        sent == SendValue(W1, recipient, amount, claimId)
    IN  IF ~sent.success \/ W1.bal[TreasuryAddr] < amount
        THEN Reverted(W, "transfer failed")
        ELSE Succeeded([ sent.W EXCEPT
                           !.ev = Emit(@, [name |-> "RewardClaimed",
                                           who |-> recipient,
                                           amount |-> amount,
                                           id |-> claimId]) ])

\* processReward with the duplicate-claim check made first, before the checks
\* of the recipient and the amount
PayReward_ClaimFirst(W, recipient, amount, claimId, checkBalance) ==
    IF AlreadyClaimed(W, claimId)
    THEN Reverted(W, "reward already claimed")
    ELSE IF recipient = NullAddr THEN Reverted(W, "invalid recipient")
    ELSE IF amount = 0 THEN Reverted(W, "amount must be positive")
    ELSE IF checkBalance /\ W.bal[TreasuryAddr] < amount
         THEN Reverted(W, "insufficient treasury balance")
    ELSE Pay(W, recipient, amount, claimId)

\* processReward keeping the claim id marked when the balance falls short
PayReward_ConsumesOnShortfall(W, recipient, amount, claimId, checkBalance) ==
    IF recipient = NullAddr THEN Reverted(W, "invalid recipient")
    ELSE IF amount = 0 THEN Reverted(W, "amount must be positive")
    ELSE IF AlreadyClaimed(W, claimId)
         THEN Reverted(W, "reward already claimed")
    ELSE IF checkBalance /\ W.bal[TreasuryAddr] < amount
         THEN Reverted([W EXCEPT !.t.claimedRewards = @ \cup {claimId}],
                       "insufficient treasury balance")
    ELSE Pay(W, recipient, amount, claimId)

\* The body of processReward after the onlyRewardSigner modifier; the loop body
\* of batchProcessRewards is the same statements without the balance check.
PayReward(W, recipient, amount, claimId, checkBalance) ==
    IF recipient = NullAddr THEN Reverted(W, "invalid recipient")
    ELSE IF amount = 0 THEN Reverted(W, "amount must be positive")
    ELSE IF AlreadyClaimed(W, claimId)
         THEN Reverted(W, "reward already claimed")
    ELSE IF checkBalance /\ W.bal[TreasuryAddr] < amount
         THEN Reverted(W, "insufficient treasury balance")
    ELSE Pay(W, recipient, amount, claimId)

\* processReward open to the signer the contract was deployed with, whoever
\* the reward signer is now
processReward_FirstSigner(W, sender, recipient, amount, claimId) ==
    IF sender # SignerAddr
    THEN Reverted(W, "caller is not reward signer")
    ELSE PayReward(W, recipient, amount, claimId, TRUE)

\* processReward(recipient, amount, claimId) called by sender
processReward(W, sender, recipient, amount, claimId) ==
    IF sender # W.t.rewardSigner
    THEN Reverted(W, "caller is not reward signer")
    ELSE PayReward(W, recipient, amount, claimId, TRUE)

\* the first loop of batchProcessRewards: totalAmount
RECURSIVE SumSeq(_)
SumSeq(s) == IF s = << >> THEN 0 ELSE Head(s) + SumSeq(Tail(s))

\* the payout loop handing back what the entries before the failing one did
RECURSIVE BatchLoop_KeepsEarlier(_, _, _, _, _, _)
BatchLoop_KeepsEarlier(W0, W, recipients, amounts, claimIds, i) ==
    IF i > Len(recipients) THEN Succeeded(W)
    ELSE LET r == PayReward(W, recipients[i], amounts[i], claimIds[i], FALSE)
         IN  IF ~r.ok THEN Reverted(W, r.err)
             ELSE BatchLoop_KeepsEarlier(W0, r.W, recipients, amounts,
                                         claimIds, i + 1)

\* the payout loop passing over an entry that fails and paying the rest
RECURSIVE BatchLoop_SkipsFailed(_, _, _, _, _, _)
BatchLoop_SkipsFailed(W0, W, recipients, amounts, claimIds, i) ==
    IF i > Len(recipients) THEN Succeeded(W)
    ELSE LET r == PayReward(W, recipients[i], amounts[i], claimIds[i], FALSE)
         IN  BatchLoop_SkipsFailed(W0, IF r.ok THEN r.W ELSE W, recipients,
                                   amounts, claimIds, i + 1)

\* the second loop of batchProcessRewards from entry i on; a failing require
\* reverts the whole call, so the state handed back is the one before the call
RECURSIVE BatchLoop(_, _, _, _, _, _)
BatchLoop(W0, W, recipients, amounts, claimIds, i) ==
    IF i > Len(recipients) THEN Succeeded(W)
    ELSE LET r == PayReward(W, recipients[i], amounts[i], claimIds[i], FALSE)
         IN  IF ~r.ok THEN Reverted(W0, r.err)
             ELSE BatchLoop(W0, r.W, recipients, amounts, claimIds, i + 1)

\* batchProcessRewards without require(recipients.length > 0)
batchProcessRewards_EmptyAllowed(W, sender, recipients, amounts, claimIds) ==
    IF sender # W.t.rewardSigner
    THEN Reverted(W, "caller is not reward signer")
    ELSE IF ~(Len(recipients) = Len(amounts) /\ Len(amounts) = Len(claimIds))
    THEN Reverted(W, "array length mismatch")
    ELSE IF ~(Len(recipients) <= MaxBatchSize)
    THEN Reverted(W, "batch too large")
    ELSE IF W.bal[TreasuryAddr] < SumSeq(amounts)
    THEN Reverted(W, "insufficient treasury balance")
    ELSE BatchLoop(W, W, recipients, amounts, claimIds, 1)

\* batchProcessRewards(recipients, amounts, claimIds) called by sender
batchProcessRewards(W, sender, recipients, amounts, claimIds) ==
    IF sender # W.t.rewardSigner
    THEN Reverted(W, "caller is not reward signer")
    ELSE IF ~(Len(recipients) = Len(amounts) /\ Len(amounts) = Len(claimIds))
    THEN Reverted(W, "array length mismatch")
    ELSE IF ~(Len(recipients) > 0) THEN Reverted(W, "empty batch")
    ELSE IF ~(Len(recipients) <= MaxBatchSize)
    THEN Reverted(W, "batch too large")
    ELSE IF W.bal[TreasuryAddr] < SumSeq(amounts)
    THEN Reverted(W, "insufficient treasury balance")
    ELSE BatchLoop(W, W, recipients, amounts, claimIds, 1)

\* a deposit that is also booked as a reward distributed
fundTreasury_CountedAsReward(W, sender, value) ==
    IF ~(value > 0) THEN Reverted(W, "must send ETH")
    ELSE Succeeded([ W EXCEPT
                       !.bal = [@ EXCEPT ![sender] = @ - value,
                                         ![TreasuryAddr] = @ + value],
                       !.t.totalRewardsDistributed = @ + value,
                       !.ev = Emit(@, [name |-> "TreasuryFunded",
                                       who |-> sender, amount |-> value,
                                       id |-> <<>>]) ])

\* fundTreasury() payable, called by sender with msg.value = value
fundTreasury(W, sender, value) ==
    IF ~(value > 0) THEN Reverted(W, "must send ETH")
    ELSE Succeeded([ W EXCEPT
                       !.bal = [@ EXCEPT ![sender] = @ - value,
                                         ![TreasuryAddr] = @ + value],
                       !.ev = Emit(@, [name |-> "TreasuryFunded",
                                       who |-> sender, amount |-> value,
                                       id |-> <<>>]) ])

\* receive() external payable: a plain transfer of value from sender to the
\* contract
receive(W, sender, value) ==
    Succeeded([ W EXCEPT
                  !.bal = [@ EXCEPT ![sender] = @ - value,
                                    ![TreasuryAddr] = @ + value],
                  !.ev = Emit(@, [name |-> "TreasuryFunded",
                                  who |-> sender, amount |-> value,
                                  id |-> <<>>]) ])

\* the admin functions open to the account that deployed the contract,
\* whoever the owner is now
onlyOwner_Deployer(W, sender) == sender = DeployerAddr

\* modifier onlyOwner: require(msg.sender == owner, ...)
onlyOwner(W, sender) == sender = W.t.owner

\* setRewardSigner(_newSigner) called by sender
setRewardSigner(W, sender, newSigner) ==
    IF ~onlyOwner(W, sender) THEN Reverted(W, "caller is not owner")
    ELSE IF newSigner = NullAddr THEN Reverted(W, "invalid signer address")
    ELSE Succeeded([ W EXCEPT
                       !.t.rewardSigner = newSigner,
                       !.ev = Emit(@, [name |-> "RewardSignerUpdated",
                                       oldSigner |-> W.t.rewardSigner,
                                       newSigner |-> newSigner]) ])

\* setRewardRate(_newRate) called by sender
setRewardRate(W, sender, newRate) ==
    IF ~onlyOwner(W, sender) THEN Reverted(W, "caller is not owner")
    ELSE IF ~(newRate > 0) THEN Reverted(W, "rate must be positive")
    ELSE Succeeded([ W EXCEPT
                       !.t.rewardPerHeartbeat = newRate,
                       !.ev = Emit(@, [name |-> "RewardRateUpdated",
                                       oldRate |-> W.t.rewardPerHeartbeat,
                                       newRate |-> newRate]) ])

\* emergencyWithdraw(to, amount) called by sender
emergencyWithdraw(W, sender, to, amount) ==
    IF ~onlyOwner(W, sender) THEN Reverted(W, "caller is not owner")
    ELSE IF to = NullAddr THEN Reverted(W, "invalid address")
    ELSE IF ~(amount <= W.bal[TreasuryAddr])
    THEN Reverted(W, "insufficient balance")
    ELSE LET sent == SendValue(W, to, amount, <<>>)
         IN  IF ~sent.success THEN Reverted(W, "withdrawal failed")
             ELSE Succeeded([ sent.W EXCEPT
                                !.ev = Emit(@, [name |-> "EmergencyWithdrawal",
                                                who |-> to, amount |-> amount,
                                                id |-> <<>>]) ])

\* transferOwnership(newOwner) called by sender
transferOwnership(W, sender, newOwner) ==
    IF ~onlyOwner(W, sender) THEN Reverted(W, "caller is not owner")
    ELSE IF newOwner = NullAddr THEN Reverted(W, "invalid owner address")
    ELSE Succeeded([W EXCEPT !.t.owner = newOwner])

\* isClaimProcessed(claimId)
isClaimProcessed(claimId) == claimId \in treasury.claimedRewards

\* getTreasuryBalance()
getTreasuryBalance(W) == W.bal[TreasuryAddr]

\* getStats(): balance, totalDistributed, totalClaims, ratePerHeartbeat
getStats(W) ==
    << W.bal[TreasuryAddr], W.t.totalRewardsDistributed,
       W.t.totalClaimsProcessed, W.t.rewardPerHeartbeat >>

\* The chain takes the state a call hands back and records the call.
Commit(call, r) ==
    /\ treasury' = r.W.t
    /\ balances' = r.W.bal
    /\ events' = r.W.ev
    /\ transfers' = r.W.xfer
    /\ lastCall' = [call EXCEPT !.ok = r.ok, !.err = r.err]

NoCall ==
    [ fn |-> "none", sender |-> NullAddr, recipient |-> NullAddr, amount |-> 0,
      id |-> <<>>, wasClaimed |-> FALSE, lengths |-> <<0, 0, 0>>, ok |-> TRUE,
      err |-> "" ]

\* ------------------------------------------------- calls made to the contract

\* bytes32 values a direct caller passes as claimId
ClaimIds == { <<i>> : i \in 1 .. NumClaimIds }
\* msg.sender of a direct call: the signer and an account that is not
Callers == {SignerAddr, DeployerAddr}
\* accounts that deposit into the treasury
Funders == {DeployerAddr}
\* recipients a direct caller names
Recipients == {NullAddr, 1, TreasuryAddr, RejectorAddr}
\* amounts a direct caller names
Amounts == {0, RewardPerHeartbeat}
ProcessRewardCall(sender, recipient, amount, claimId) ==
    /\ UNCHANGED <<clientVars, ledgerVars, serverVars>>
    /\ Commit([NoCall EXCEPT !.fn = "processReward", !.sender = sender,
                          !.recipient = recipient, !.amount = amount,
                          !.id = claimId,
                             !.wasClaimed = isClaimProcessed(claimId)],
              processReward(World, sender, recipient, amount, claimId))

SeqsUpTo(S, n) == UNION { [1 .. k -> S] : k \in 0 .. n }

\* one entry of a batch
Entry(recipient, amount, claimId) ==
    [recipient |-> recipient, amount |-> amount, id |-> claimId]

\* The entries the batches of the model are made of: a payable entry for each
\* claim identifier, and one entry for each way an entry can fail.
Entries ==
    { Entry(1, RewardPerHeartbeat, c) : c \in ClaimIds }
    \cup { Entry(NullAddr, RewardPerHeartbeat, <<1>>),
           Entry(1, 0, <<1>>),
           Entry(RejectorAddr, RewardPerHeartbeat, <<1>>),
           Entry(TreasuryAddr, RewardPerHeartbeat, <<1>>) }

\* The three calldata arrays of a batch: those of `entries`, one of them an
\* entry shorter when `short` names it.
BatchArrays(sender, entries, short) ==
    LET n == Len(entries)
        m(which) == IF short = which /\ n > 0 THEN n - 1 ELSE n
    IN  [ sender |-> sender,
          recipients |-> [i \in 1 .. n |-> entries[i].recipient],
          amounts |-> [i \in 1 .. m("amounts") |-> entries[i].amount],
          claimIds |-> [i \in 1 .. m("claimIds") |-> entries[i].id] ]

\* a batch of n entries, each for a claim identifier of its own
LongBatch(n) ==
    BatchArrays(SignerAddr, [i \in 1 .. n |-> Entry(1, RewardPerHeartbeat, <<i>>)],
                "none")

\* The batch calls of the model: every batch of up to MaxBatch entries sent by
\* the signer, the batches of one claim sent by another account, batches
\* whose arrays differ in length, and a batch of the largest size and one of
\* an entry more.
BatchInputs ==
    { BatchArrays(SignerAddr, e, "none") : e \in SeqsUpTo(Entries, MaxBatch) }
    \cup { BatchArrays(DeployerAddr, << Entry(1, RewardPerHeartbeat, c) >>, "none") :
             c \in ClaimIds }
    \cup { BatchArrays(SignerAddr, [i \in 1 .. k |-> Entry(1, RewardPerHeartbeat, <<i>>)],
                       short) :
             k \in 1 .. MaxBatch, short \in {"amounts", "claimIds"} }
    \cup { LongBatch(MaxBatchSize), LongBatch(MaxBatchSize + 1) }

BatchProcessRewardsCall(sender, recipients, amounts, claimIds) ==
    /\ UNCHANGED <<clientVars, ledgerVars, serverVars>>
    /\ Commit([NoCall EXCEPT !.fn = "batchProcessRewards", !.sender = sender,
                             !.lengths = <<Len(recipients), Len(amounts),
                                           Len(claimIds)>>],
              batchProcessRewards(World, sender, recipients, amounts, claimIds))

FundTreasuryCall(sender, value) ==
    /\ balances[sender] >= value
    /\ UNCHANGED <<clientVars, ledgerVars, serverVars>>
    /\ Commit([NoCall EXCEPT !.fn = "fundTreasury", !.sender = sender,
                             !.amount = value],
              fundTreasury(World, sender, value))

\* TreasuryFunded events emitted so far
Deposits ==
    BagCardinality([e \in { x \in BagToSet(events) :
                              x.name = "TreasuryFunded" } |-> events[e]])

ReceiveCall(sender, value) ==
    /\ Deposits < MaxDeposits
    /\ balances[sender] >= value
    /\ UNCHANGED <<clientVars, ledgerVars, serverVars>>
    /\ Commit([NoCall EXCEPT !.fn = "receive", !.sender = sender,
                             !.amount = value],
              receive(World, sender, value))

\* RewardSignerUpdated events emitted so far
SignerUpdates ==
    BagCardinality([e \in { x \in BagToSet(events) :
                              x.name = "RewardSignerUpdated" } |-> events[e]])

SetRewardSignerCall(sender, newSigner) ==
    /\ SignerUpdates < MaxSignerUpdates
    /\ UNCHANGED <<clientVars, ledgerVars, serverVars>>
    /\ Commit([NoCall EXCEPT !.fn = "setRewardSigner", !.sender = sender,
                             !.recipient = newSigner],
              setRewardSigner(World, sender, newSigner))

\* RewardRateUpdated and EmergencyWithdrawal events emitted so far
AdminEvents ==
    BagCardinality([e \in { x \in BagToSet(events) :
                              x.name \in {"RewardRateUpdated",
                                          "EmergencyWithdrawal"} }
                      |-> events[e]])

\* rates an admin caller names: zero and twice the rate of the deployment
Rates == {0, 2 * RewardPerHeartbeat}

SetRewardRateCall(sender, newRate) ==
    /\ AdminEvents < MaxAdminEvents
    /\ UNCHANGED <<clientVars, ledgerVars, serverVars>>
    /\ Commit([NoCall EXCEPT !.fn = "setRewardRate", !.sender = sender,
                             !.amount = newRate],
              setRewardRate(World, sender, newRate))

\* amounts an admin caller withdraws: one reward, and more than the treasury
\* ever holds
WithdrawAmounts == {RewardPerHeartbeat, (FundUnits + 2) * RewardPerHeartbeat}

EmergencyWithdrawCall(sender, to, amount) ==
    /\ AdminEvents < MaxAdminEvents
    /\ UNCHANGED <<clientVars, ledgerVars, serverVars>>
    /\ Commit([NoCall EXCEPT !.fn = "emergencyWithdraw", !.sender = sender,
                             !.recipient = to, !.amount = amount],
              emergencyWithdraw(World, sender, to, amount))

TransferOwnershipCall(sender, newOwner) ==
    /\ UNCHANGED <<clientVars, ledgerVars, serverVars>>
    /\ Commit([NoCall EXCEPT !.fn = "transferOwnership", !.sender = sender,
                             !.recipient = newOwner],
              transferOwnership(World, sender, newOwner))

\* ------------------------------------------------------ BlockchainClient

\* big.Int.Bytes(): the big-endian bytes of n without leading zeros, none for 0
RECURSIVE BigBytes(_)
BigBytes(n) == IF n = 0 THEN << >> ELSE Append(BigBytes(n \div 256), n % 256)

\* common.Address.Bytes(): the 20 bytes of the address
AddressBytes(a) == [i \in 1 .. 20 |-> IF i = 20 THEN a ELSE 0]

\* the claim ID taken from the recipient and the amount alone
ClaimID_Timeless(recipientAddr, amount, nanos) ==
    AddressBytes(recipientAddr) \o BigBytes(amount)

\* crypto.Keccak256Hash(recipientAddr.Bytes(), amount.Bytes(),
\* big.NewInt(time.Now().UnixNano()).Bytes()): the hash of the three byte
\* strings joined. The hash is taken to be collision free: the model keeps the
\* bytes that are hashed.
ClaimID(recipientAddr, amount, nanos) ==
    AddressBytes(recipientAddr) \o BigBytes(amount) \o BigBytes(nanos)

\* big.Int.Int64() of a count: the value itself below 2^63, and the counts of
\* the model are far below
Int64(n) == n

\* getStatsIndividually: the balance from getTreasuryBalance, the totals zero
getStatsIndividually(W) ==
    [ Balance |-> getTreasuryBalance(W), TotalDistributed |-> 0,
      TotalClaims |-> 0, RewardRate |-> RewardPerHeartbeat ]

\* GetContractStats read through the fallback in every case
GetContractStats_Individually(W) == getStatsIndividually(W)

\* GetContractStats on chain state W: without a contract address the signer's
\* balance and zero totals; else the four values of getStats unpacked, or
\* getStatsIndividually when the result does not unpack into four values
GetContractStats(W) ==
    IF ~contractMode
    THEN [ Balance |-> W.bal[SignerAddr], TotalDistributed |-> 0,
           TotalClaims |-> 0, RewardRate |-> RewardPerHeartbeat ]
    ELSE LET result == getStats(W)
         IN  IF Len(result) # 4 THEN getStatsIndividually(W)
             ELSE [ Balance |-> result[1], TotalDistributed |-> result[2],
                    TotalClaims |-> Int64(result[3]), RewardRate |-> result[4] ]

\* a goroutine that is not inside ProcessReward
Idle ==
    [ pc |-> "idle", origin |-> "none", recipient |-> EmptyString, amount |-> 0,
      nanos |-> 0, claimID |-> << >>, nonce |-> 0, err |-> "", cause |-> "",
      txHash |-> "",
      rpcs |-> 0, acquired |-> 0, sent |-> 0, rolledBack |-> 0 ]

\* the counter left as it is
Decrement_Kept(n) == n

\* the counter taken back by two
Decrement_Twice(n) == n - 2

\* currentNonce-- on a uint64: 0 wraps to the largest value, written -1 here
Decrement(n) == IF n = 0 THEN -1 ELSE n - 1

\* goroutine w is at `label`, in a process that is running
At(w, label) == ~crashed /\ calls[w].pc = label

Goto(w, label) == calls' = [calls EXCEPT ![w].pc = label]

\* ProcessReward(recipient, amount) is called on goroutine w and runs up to
\* the gas price query: IsHexAddress, HexToAddress, and in contract mode the
\* claim ID and the packed call. All of it is local to the goroutine.
Invoke(w, origin, recipient, amount) ==
    /\ ~crashed
    /\ \/ calls[w].pc = "idle"
       \/ calls[w].pc = "returned" /\ calls[w].origin = "call"
    /\ invoked < MaxCalls
    /\ invoked' = invoked + 1
    /\ LET entered == [Idle EXCEPT !.origin = origin, !.recipient = recipient,
                                   !.amount = amount]
       IN  IF ~IsHexAddress(recipient)
           THEN /\ calls' = [calls EXCEPT
                       ![w] = [entered EXCEPT
                                 !.pc = "returned",
                                 !.err = "invalid recipient address"]]
                /\ clock' = clock
           ELSE IF contractMode
           THEN \E nanos \in clock .. MaxTime :
                  /\ clock' = nanos
                  /\ calls' = [calls EXCEPT
                         ![w] = [entered EXCEPT
                                   !.pc = "gasPrice",
                                   !.nanos = nanos,
                                   !.claimID = ClaimID(HexToAddress(recipient),
                                                       amount, nanos)]]
           ELSE /\ calls' = [calls EXCEPT ![w] = [entered EXCEPT !.pc = "gasPrice"]]
                /\ clock' = clock
    /\ UNCHANGED <<contractVars, ledgerVars, contractMode, currentNonce,
                   nonceMux, sendLog, startNonce>>

\* bc.client.SuggestGasPrice
SuggestGasPrice(w) ==
    /\ At(w, "gasPrice")
    /\ \E ok \in BOOLEAN :
         calls' = [calls EXCEPT
             ![w].rpcs = @ + 1,
             ![w].pc = IF ok THEN "lock" ELSE "returned",
             ![w].err = IF ok THEN "" ELSE "failed to get gas price",
             ![w].cause = IF ok THEN "" ELSE "rpc"]
    /\ UNCHANGED <<serverVars, contractVars, ledgerVars, contractMode, currentNonce,
                   nonceMux, clock, sendLog, startNonce, invoked>>

\* bc.nonceMux.Lock() before the nonce is taken
LockForNonce(w) ==
    /\ At(w, "lock")
    /\ nonceMux = 0
    /\ nonceMux' = w
    /\ Goto(w, "acquire")
    /\ UNCHANGED <<serverVars, contractVars, ledgerVars, contractMode, currentNonce,
                   clock, sendLog, startNonce, invoked>>

\* the sequence number read and the counter left where it was
AcquireNonce_NotIncremented(w) ==
    /\ At(w, "acquire")
    /\ nonceMux = w
    /\ currentNonce' = currentNonce
    /\ nonceMux' = 0
    /\ calls' = [calls EXCEPT
           ![w].nonce = currentNonce,
           ![w].acquired = @ + 1,
           ![w].pc = IF contractMode THEN "estimate" ELSE "send"]
    /\ UNCHANGED <<serverVars, contractVars, ledgerVars, contractMode, clock, sendLog,
                   startNonce, invoked>>

\* the sequence number taken with the lock kept until the function returns
AcquireNonce_LockKept(w) ==
    /\ At(w, "acquire")
    /\ nonceMux = w
    /\ currentNonce' = currentNonce + 1
    /\ nonceMux' = w
    /\ calls' = [calls EXCEPT
           ![w].nonce = currentNonce,
           ![w].acquired = @ + 1,
           ![w].pc = IF contractMode THEN "estimate" ELSE "send"]
    /\ UNCHANGED <<serverVars, contractVars, ledgerVars, contractMode, clock, sendLog,
                   startNonce, invoked>>

\* nonce := bc.currentNonce; bc.currentNonce++; bc.nonceMux.Unlock()
AcquireNonce(w) ==
    /\ At(w, "acquire")
    /\ nonceMux = w
    /\ currentNonce' = currentNonce + 1
    /\ nonceMux' = 0
    /\ calls' = [calls EXCEPT
           ![w].nonce = currentNonce,
           ![w].acquired = @ + 1,
           ![w].pc = IF contractMode THEN "estimate" ELSE "send"]
    /\ UNCHANGED <<serverVars, contractVars, ledgerVars, contractMode, clock, sendLog,
                   startNonce, invoked>>

\* eth_estimateGas runs the call on the ledger's current state: it fails when
\* processReward would revert there, and it may fail as any RPC may
EstimateGasResults(w) ==
    LET r == processReward(World, SignerAddr, HexToAddress(calls[w].recipient),
                           calls[w].amount, calls[w].claimID)
    IN  IF r.ok THEN {"", "rpc"} ELSE {r.err}

\* bc.client.EstimateGas (contract mode only)
EstimateGas(w) ==
    /\ At(w, "estimate")
    /\ \E cause \in EstimateGasResults(w) :
         calls' = [calls EXCEPT
             ![w].rpcs = @ + 1,
             ![w].pc = IF cause = "" THEN "send" ELSE "relock",
             ![w].err = IF cause = "" THEN "" ELSE "failed to estimate gas",
             ![w].cause = cause]
    /\ UNCHANGED <<serverVars, contractVars, ledgerVars, contractMode, currentNonce,
                   nonceMux, clock, sendLog, startNonce, invoked>>

\* the transaction goroutine w has built and signed
SignedTx(w) ==
    [ from |-> w, nonce |-> calls[w].nonce,
      to |-> IF contractMode THEN TreasuryAddr
             ELSE HexToAddress(calls[w].recipient),
      value |-> IF contractMode THEN 0 ELSE calls[w].amount,
      recipient |-> HexToAddress(calls[w].recipient),
      amount |-> calls[w].amount,
      claimID |-> calls[w].claimID ]

\* The ledger's answers to eth_sendRawTransaction: a nonce the account has
\* already used is refused; anything else is taken or refused (the connection
\* fails, or a pending transaction of the same nonce is not outbid).
SendResults(tx) ==
    IF tx.nonce < chainNonce THEN {"nonce too low"} ELSE {"", "rpc"}

\* types.NewTransaction, types.SignTx (local to the goroutine, it may fail),
\* then bc.client.SendTransaction; return signedTx.Hash().Hex(), nil
SendTransaction(w) ==
    /\ At(w, "send")
    /\ \/ /\ calls' = [calls EXCEPT ![w].pc = "relock",
                                     ![w].err = "failed to sign transaction",
                                     ![w].cause = "sign"]
          /\ UNCHANGED <<sendLog, txpool>>
       \/ \E cause \in SendResults(SignedTx(w)) :
            LET ok == cause = ""
            IN  /\ sendLog' = Append(sendLog, [from |-> w,
                                               nonce |-> calls[w].nonce,
                                               ok |-> ok])
                /\ txpool' = IF ok
                             THEN (calls[w].nonce :> SignedTx(w)) @@ txpool
                             ELSE txpool
                /\ calls' = [calls EXCEPT
                       ![w].rpcs = @ + 1,
                       ![w].sent = @ + 1,
                       ![w].pc = IF ok THEN "returned" ELSE "relock",
                       ![w].txHash = IF ok THEN "hash" ELSE "",
                       ![w].err = IF ok THEN ""
                                  ELSE "failed to send transaction",
                       ![w].cause = cause]
    /\ UNCHANGED <<serverVars, contractVars, chainNonce, height, contractMode,
                   currentNonce, nonceMux, clock, startNonce, invoked>>

\* bc.nonceMux.Lock() on a failure path
LockForRollback(w) ==
    /\ At(w, "relock")
    /\ nonceMux = 0
    /\ nonceMux' = w
    /\ Goto(w, "rollback")
    /\ UNCHANGED <<serverVars, contractVars, ledgerVars, contractMode, currentNonce,
                   clock, sendLog, startNonce, invoked>>

\* the failure path going back to the gas price query after the rollback
Rollback_Retry(w) ==
    /\ At(w, "rollback")
    /\ nonceMux = w
    /\ currentNonce' = Decrement(currentNonce)
    /\ nonceMux' = 0
    /\ calls' = [calls EXCEPT ![w].rolledBack = @ + 1, ![w].pc = "gasPrice"]
    /\ UNCHANGED <<serverVars, contractVars, ledgerVars, contractMode, clock, sendLog,
                   startNonce, invoked>>

\* bc.currentNonce--; bc.nonceMux.Unlock(); return "", err
Rollback(w) ==
    /\ At(w, "rollback")
    /\ nonceMux = w
    /\ currentNonce' = Decrement(currentNonce)
    /\ nonceMux' = 0
    /\ calls' = [calls EXCEPT ![w].rolledBack = @ + 1, ![w].pc = "returned"]
    /\ UNCHANGED <<serverVars, contractVars, ledgerVars, contractMode, clock, sendLog,
                   startNonce, invoked>>

\* one step of goroutine w inside ProcessReward
ProcessRewardStep(w) ==
    \/ SuggestGasPrice(w)
    \/ LockForNonce(w)
    \/ AcquireNonce(w)
    \/ EstimateGas(w)
    \/ SendTransaction(w)
    \/ LockForRollback(w)
    \/ Rollback(w)

\* the arguments a caller of ProcessReward on goroutine w passes: the wallet
\* of user w with the reward or with amount 0, the null address, and text that
\* is no address
Arguments(w) ==
    { [recipient |-> HexString(w), amount |-> RewardPerHeartbeat],
      [recipient |-> HexString(w), amount |-> 0],
      [recipient |-> HexString(NullAddr), amount |-> RewardPerHeartbeat],
      [recipient |-> GarbageString, amount |-> RewardPerHeartbeat] }

\* a connection slot with no ClientSession
NoSession ==
    [ open |-> FALSE, WalletAddress |-> EmptyString, Heartbeats |-> 0,
      TotalEarned |-> 0 ]

\* main after `go server.blockMonitor(ctx)`, `go server.rewardProcessor(ctx)`
\* and `go server.broadcastUpdates(ctx)`: the context live, the loops running
BackgroundStarted ==
    [ cancelled |-> FALSE, blockMonitor |-> "running",
      rewardProcessor |-> "running", broadcastUpdates |-> "running" ]

\* broadcastUpdates waiting on blockUpdates, holding no snapshot
BroadcastIdle == [pc |-> "recv", block |-> 0, todo |-> {}]

\* the browser's ChainPayApp after its constructor: nothing counted, not watching
ChainPayApp ==
    [ heartbeatCount |-> 0, sessionEarnings |-> 0, isWatching |-> FALSE,
      handled |-> << >> ]

\* NewBlockchainClient and main: the client and the server after construction,
\* the nonce read from the ledger
ServerStarted(mode, k) ==
    /\ contractMode = mode
    /\ currentNonce = k
    /\ startNonce = k
    /\ chainNonce = k
    /\ nonceMux = 0
    /\ sendLog = << >>
    /\ txpool = << >>
    /\ invoked = 0
    /\ stats = [TotalHeartbeats |-> 0, TotalRewards |-> 0, BlockHeight |-> 0]
    /\ sessions = [w \in Workers |-> NoSession]
    /\ replies = EmptyBag
    /\ crashed = FALSE
    /\ bg = BackgroundStarted
    /\ conns = [w \in Workers |-> "none"]
    /\ bcast = BroadcastIdle
    /\ blockUpdates = << >>
    /\ lastBlock = 0
    /\ observed = << >>
    /\ published = << >>
    /\ blockWrites = [w \in Workers |-> << >>]
    /\ statsMux = 0
    /\ writing = [w \in Workers |-> {}]
    /\ browser = ChainPayApp

\* the client and the server after construction, no goroutine inside
\* ProcessReward
ClientInit(mode, k) ==
    /\ ServerStarted(mode, k)
    /\ calls = [w \in Workers |-> Idle]

ContractInit(value) ==
    LET W == Deployed(DeployerAddr, SignerAddr, value)
    IN  /\ treasury = W.t
        /\ balances = W.bal
        /\ events = W.ev
        /\ transfers = W.xfer
        /\ lastCall = NoCall

InitClient ==
    /\ \E mode \in BOOLEAN, k \in {0, 1} : ClientInit(mode, k)
    /\ clock = MaxTime
    /\ height = 0
    /\ ContractInit(FundUnits * RewardPerHeartbeat)

NextClient ==
    \/ \E w \in Workers :
         \E a \in Arguments(w) :
            /\ Invoke(w, "call", a.recipient, a.amount)
            /\ UNCHANGED serverVars
    \/ \E w \in Workers : ProcessRewardStep(w)

\* ProcessReward called while no other call is inside it
InvokeAlone(w, recipient, amount) ==
    /\ \A v \in Workers : calls[v].pc \in {"idle", "returned"}
    /\ Invoke(w, "call", recipient, amount)
    /\ UNCHANGED serverVars

\* ------------------------------------------------------------------ ledger

\* The ledger executes the signing account's pending transaction that carries
\* the account's next nonce, in a new block: a call of processReward from the
\* signer, or in direct mode a transfer of the value from the signer to the
\* recipient.
MineNext ==
    /\ chainNonce \in DOMAIN txpool
    /\ LET tx == txpool[chainNonce]
       IN  IF tx.to = TreasuryAddr
           THEN Commit([NoCall EXCEPT !.fn = "processReward",
                                      !.sender = SignerAddr,
                                      !.recipient = tx.recipient,
                                      !.amount = tx.amount,
                                      !.id = tx.claimID,
                                      !.wasClaimed = isClaimProcessed(tx.claimID)],
                       processReward(World, SignerAddr, tx.recipient, tx.amount,
                                     tx.claimID))
           ELSE /\ balances' = [balances EXCEPT ![SignerAddr] = @ - tx.value,
                                                ![tx.to] = @ + tx.value]
                /\ UNCHANGED <<treasury, events, transfers, lastCall>>
    /\ chainNonce' = chainNonce + 1
    /\ height' = height + 1
    /\ txpool' = [n \in DOMAIN txpool \ {chainNonce} |-> txpool[n]]
    /\ UNCHANGED <<clientVars, serverVars>>

\* ------------------------------------------------------------------ server

\* the goroutines that serve a WebSocket connection
Conns == 1 .. NumConns

\* err.Error() of the error ProcessReward returned: the step that failed and
\* the error it wraps (fmt.Errorf("...: %w", err))
ErrorOf(c) == <<c.err, c.cause>>
NoError == <<"", "">>

\* len(s) of a recipient string: a hex address has 42 characters, the other
\* text of the model 14
StrLen(s) == IF s.kind = "hex" THEN 42 ELSE IF s.kind = "empty" THEN 0 ELSE 14

\* the outcome of a session's heartbeat written to every connection of the
\* registry
OutcomeTargets_Registry(origin, w) ==
    IF origin = "ws" THEN { c \in Workers : sessions[c].open } \cup {w} ELSE {w}

\* the connections an outcome is written to: conn.WriteJSON(response) on the
\* connection of the message loop, json.NewEncoder(w).Encode(response) on the
\* request's own response writer
OutcomeTargets(origin, w) == {w}

\* The outcome of the attempt of goroutine w is written: a message with the
\* success flag and the error text for each connection it is written to.
Reply(origin, w, success, error) ==
    replies' = replies (+)
        SetToBag({ [origin |-> origin, for |-> w, to |-> c,
                    success |-> success, error |-> error] :
                   c \in OutcomeTargets(origin, w) })

\* a registry that keeps every connection ever put in it
Registry_NeverRemoved == { c \in Workers : conns[c] # "none" }

\* s.clients: the connections in the registry
Registry == { c \in Workers : sessions[c].open }

\* the goroutines between s.clientsMux.Lock() and s.clientsMux.Unlock(), when
\* the handlers are taken one statement at a time
ExclusiveHolders ==
    { w \in Workers : calls[w].pc \in {"register", "unregister"} }

\* s.clientsMux can be locked exclusively: broadcastUpdates holds it shared
\* from RLock to RUnlock, and a handler holds it exclusively from Lock to
\* Unlock
RegistryLockFree == bcast.pc # "loop" /\ ExclusiveHolders = {}

\* handleWebSocket: the connection of goroutine w is upgraded, its session
\* created and put in s.clients under clientsMux
handleWebSocket(w) ==
    /\ ~crashed
    /\ conns[w] = "none"
    /\ calls[w].pc = "idle"
    /\ RegistryLockFree
    /\ conns' = [conns EXCEPT ![w] = "open"]
    /\ sessions' = [sessions EXCEPT ![w] = [NoSession EXCEPT !.open = TRUE]]
    /\ UNCHANGED <<contractVars, clientVars, ledgerVars, stats, replies,
                   crashed, bg, restVars, bcast, blockUpdates, lastBlock, observed,
                   published, blockWrites>>

\* the peer of connection w closes it: the next ReadJSON returns an error
PeerClose(w) ==
    /\ ~crashed
    /\ conns[w] = "open"
    /\ conns' = [conns EXCEPT ![w] = "gone"]
    /\ UNCHANGED <<contractVars, clientVars, ledgerVars, stats, sessions,
                   replies, crashed, bg, restVars, bcast, blockUpdates,
                   lastBlock, observed,
                   published, blockWrites>>

\* handleWSMessages: ReadJSON fails, the loop ends and the deferred function
\* deletes the connection from s.clients under clientsMux and closes it
WSDisconnect(w) ==
    /\ ~crashed
    /\ conns[w] = "gone"
    /\ calls[w].pc = "idle"
    /\ RegistryLockFree
    /\ sessions' = [sessions EXCEPT ![w].open = FALSE]
    /\ conns' = [conns EXCEPT ![w] = "closed"]
    /\ UNCHANGED <<contractVars, clientVars, ledgerVars, stats, replies,
                   crashed, bg, restVars, bcast, blockUpdates, lastBlock, observed,
                   published, blockWrites>>

\* handleWSMessages, case "register": the wallet is bound, then addr[:10] is
\* logged, which panics on a string shorter than 10 characters; the panic
\* runs the deferred function and ends the process
WSRegister(w, addr) ==
    /\ ~crashed
    /\ conns[w] = "open"
    /\ sessions[w].open
    /\ calls[w].pc = "idle"
    /\ IF StrLen(addr) < 10
       THEN /\ RegistryLockFree
            /\ sessions' = [sessions EXCEPT ![w].WalletAddress = addr,
                                            ![w].open = FALSE]
            /\ conns' = [conns EXCEPT ![w] = "closed"]
            /\ crashed' = TRUE
       ELSE /\ sessions' = [sessions EXCEPT ![w].WalletAddress = addr]
            /\ UNCHANGED <<conns, crashed>>
    /\ UNCHANGED <<contractVars, clientVars, ledgerVars, stats, replies, bg, restVars,
                   bcast, blockUpdates, lastBlock, observed, published,
                   blockWrites>>

\* every session taken to have a wallet
HasWallet_Always(session) == TRUE

\* if session.WalletAddress != ""
HasWallet(session) == session.WalletAddress # EmptyString

\* handleWSMessages, case "heartbeat", up to the return of ProcessReward's
\* local checks: the message is read, and nothing more happens on a session
\* without a wallet
WSHeartbeat(w) ==
    /\ conns[w] = "open"
    /\ sessions[w].open
    /\ calls[w].pc = "idle"
    /\ IF HasWallet(sessions[w])
       THEN /\ sessions' = [sessions EXCEPT ![w].Heartbeats = @ + 1]
            /\ Invoke(w, "ws", sessions[w].WalletAddress, RewardPerHeartbeat)
            /\ UNCHANGED <<stats, replies, crashed, bg, restVars, fanVars>>
       ELSE /\ ~crashed
            /\ UNCHANGED vars

\* the earnings credited whatever ProcessReward returned
Credit_Always(earned, success, amount) == earned + amount

\* if err == nil { session.TotalEarned.Add(session.TotalEarned, amount) }
Credit(earned, success, amount) ==
    IF success THEN earned + amount ELSE earned

\* handleWSMessages, case "heartbeat", after ProcessReward returned: the
\* response is built, the session's earnings grow on success, and the
\* response is written to the connection
WSRespond(w) ==
    /\ At(w, "returned")
    /\ calls[w].origin = "ws"
    /\ conns[w] # "stalled"
    /\ LET success == calls[w].err = ""
       IN  /\ sessions' = [sessions EXCEPT
                  ![w].TotalEarned = Credit(@, success, calls[w].amount)]
           /\ Reply("ws", w, success,
                    IF success THEN NoError ELSE ErrorOf(calls[w]))
    /\ calls' = [calls EXCEPT ![w] = Idle]
    /\ UNCHANGED <<contractVars, ledgerVars, contractMode, currentNonce,
                   nonceMux, clock, sendLog, startNonce, invoked, stats,
                   crashed, bg, restVars, fanVars>>

\* handleHeartbeat up to the return of ProcessReward's local checks: a request
\* without a wallet address is answered 400 Bad Request
handleHeartbeat(w, wallet) ==
    /\ ~crashed
    /\ calls[w].pc = "idle"
    /\ IF wallet = EmptyString
       THEN /\ invoked < MaxCalls
            /\ invoked' = invoked + 1
            /\ Reply("http", w, FALSE, <<"Wallet address required", "">>)
            /\ UNCHANGED <<contractVars, ledgerVars, contractMode, currentNonce,
                           nonceMux, clock, sendLog, startNonce, calls>>
       ELSE /\ Invoke(w, "http", wallet, RewardPerHeartbeat)
            /\ UNCHANGED replies
    /\ UNCHANGED <<stats, sessions, crashed, bg, restVars, fanVars>>

\* handleHeartbeat after ProcessReward returned: the failure response, or the
\* balance read, the update of s.stats under statsMux and the success response
HeartbeatRespond(w) ==
    /\ At(w, "returned")
    /\ calls[w].origin = "http"
    /\ LET success == calls[w].err = ""
       IN  /\ stats' = IF success
                       THEN [stats EXCEPT
                               !.TotalHeartbeats = @ + 1,
                               !.TotalRewards = @ + calls[w].amount]
                       ELSE stats
           /\ Reply("http", w, success,
                    IF success THEN NoError ELSE ErrorOf(calls[w]))
    /\ calls' = [calls EXCEPT ![w] = Idle]
    /\ UNCHANGED <<contractVars, ledgerVars, contractMode, currentNonce,
                   nonceMux, clock, sendLog, startNonce, invoked, sessions,
                   crashed, bg, restVars, fanVars>>

\* ------------------------------ the statistics update, statement by statement

\* the update of s.stats begun without taking s.statsMux
LockStats_Skipped(w) == statsMux' = statsMux

\* s.statsMux.Lock() by goroutine w: it waits while another goroutine holds
\* the lock
LockStats(w) ==
    /\ statsMux = 0
    /\ statsMux' = w

\* handleHeartbeat after ProcessReward failed: the failure response
HeartbeatFail(w) ==
    /\ calls[w].err # ""
    /\ HeartbeatRespond(w)

\* handleHeartbeat after ProcessReward succeeded: the balance read and
\* s.statsMux.Lock()
StatsLock(w) ==
    /\ At(w, "returned")
    /\ calls[w].origin = "http"
    /\ calls[w].err = ""
    /\ LockStats(w)
    /\ Goto(w, "countHeartbeat")
    /\ UNCHANGED <<contractVars, ledgerVars, contractMode, currentNonce,
                   nonceMux, clock, sendLog, startNonce, invoked, stats,
                   sessions, replies, crashed, bg, writing, browser, fanVars>>

\* s.stats.TotalHeartbeats++
StatsCount(w) ==
    /\ At(w, "countHeartbeat")
    /\ stats' = [stats EXCEPT !.TotalHeartbeats = @ + 1]
    /\ Goto(w, "addReward")
    /\ UNCHANGED <<contractVars, ledgerVars, contractMode, currentNonce,
                   nonceMux, clock, sendLog, startNonce, invoked, sessions,
                   replies, crashed, bg, restVars, fanVars>>

\* s.stats.TotalRewards.Add(s.stats.TotalRewards, rewardWei)
StatsAdd(w) ==
    /\ At(w, "addReward")
    /\ stats' = [stats EXCEPT !.TotalRewards = @ + calls[w].amount]
    /\ Goto(w, "unlockStats")
    /\ UNCHANGED <<contractVars, ledgerVars, contractMode, currentNonce,
                   nonceMux, clock, sendLog, startNonce, invoked, sessions,
                   replies, crashed, bg, restVars, fanVars>>

\* s.statsMux.Unlock()
StatsUnlock(w) ==
    /\ At(w, "unlockStats")
    /\ statsMux' = 0
    /\ Goto(w, "respond")
    /\ UNCHANGED <<contractVars, ledgerVars, contractMode, currentNonce,
                   nonceMux, clock, sendLog, startNonce, invoked, stats,
                   sessions, replies, crashed, bg, writing, browser, fanVars>>

\* handleHeartbeat: the success response is encoded
HeartbeatSucceed(w) ==
    /\ At(w, "respond")
    /\ Reply("http", w, TRUE, NoError)
    /\ calls' = [calls EXCEPT ![w] = Idle]
    /\ UNCHANGED <<contractVars, ledgerVars, contractMode, currentNonce,
                   nonceMux, clock, sendLog, startNonce, invoked, stats,
                   sessions, crashed, bg, restVars, fanVars>>

\* --------------------------------------------- block monitor and fan-out

\* The ledger produces a block without a transaction of the signing account.
NewBlock(top) ==
    /\ height < top
    /\ height' = height + 1
    /\ UNCHANGED <<contractVars, clientVars, serverVars, txpool, chainNonce>>

\* The ledger's latest block number falls: the chain is reorganised onto a
\* shorter branch, or a node of the RPC endpoint that lags behind answers.
Reorg ==
    /\ height > 0
    /\ height' = height - 1
    /\ UNCHANGED <<contractVars, clientVars, serverVars, txpool, chainNonce>>

\* a block whose number differs from the last one counts as new
IsNewBlock_Changed(number, last) == number # last

\* a block no lower than the last one counts as new
IsNewBlock_OrEqual(number, last) == number >= last

\* if block.Number > lastBlock
IsNewBlock(number, last) == number > last

\* blockMonitor, one tick: GetLatestBlock fails and the loop continues, or it
\* returns the ledger's latest block; a block above lastBlock is remembered,
\* sent on blockUpdates (the send waits while the channel is full) and
\* recorded in s.stats under statsMux
PollWithin(limit) ==
    /\ ~crashed
    /\ bg.blockMonitor = "running"
    /\ Len(observed) < limit
    /\ \/ UNCHANGED <<stats, lastBlock, blockUpdates, observed, published>>
       \/ /\ observed' = Append(observed, height)
          /\ IF IsNewBlock(height, lastBlock)
             THEN /\ Len(blockUpdates) < BlockUpdatesCap
                  /\ lastBlock' = height
                  /\ blockUpdates' = Append(blockUpdates, height)
                  /\ published' = Append(published, height)
                  /\ stats' = [stats EXCEPT !.BlockHeight = height]
             ELSE UNCHANGED <<stats, lastBlock, blockUpdates, published>>
    /\ UNCHANGED <<contractVars, clientVars, ledgerVars, sessions, replies,
                   crashed, bg, restVars, conns, bcast, blockWrites>>

\* a tick of blockMonitor, among the first MaxPolls polls that succeed
Poll == PollWithin(MaxPolls)

\* the newest snapshot of the channel taken instead of the oldest
NextSnapshot_Newest(queue) == queue[Len(queue)]

\* <-s.blockUpdates: a channel hands out what was sent on it first
NextSnapshot(queue) == Head(queue)

\* broadcastUpdates: block := <-s.blockUpdates, and the message is built
BroadcastReceive ==
    /\ ~crashed
    /\ bg.broadcastUpdates = "running"
    /\ bcast.pc = "recv"
    /\ blockUpdates # << >>
    /\ bcast' = [pc |-> "rlock", block |-> NextSnapshot(blockUpdates),
                 todo |-> {}]
    /\ blockUpdates' = Tail(blockUpdates)
    /\ UNCHANGED <<contractVars, clientVars, ledgerVars, stats, sessions,
                   replies, crashed, bg, restVars, conns, lastBlock, observed, published,
                   blockWrites>>

\* broadcastUpdates: s.clientsMux.RLock(), and the range over s.clients begins
BroadcastRLock ==
    /\ ~crashed
    /\ bcast.pc = "rlock"
    /\ ExclusiveHolders = {}
    /\ bcast' = [bcast EXCEPT !.pc = "loop", !.todo = Registry]
    /\ UNCHANGED <<contractVars, clientVars, ledgerVars, stats, sessions,
                   replies, crashed, bg, restVars, conns, blockUpdates,
                   lastBlock, observed,
                   published, blockWrites>>

\* broadcastUpdates: conn.WriteJSON(msg) for one connection of the range; the
\* write fails on a connection its peer has closed, and the error is dropped;
\* it waits, without a deadline, while the peer is not reading
BroadcastWrite(c) ==
    /\ ~crashed
    /\ bcast.pc = "loop"
    /\ c \in bcast.todo
    /\ conns[c] # "stalled"
    /\ blockWrites' = [blockWrites EXCEPT
                         ![c] = Append(@, [number |-> bcast.block,
                                           ok |-> conns[c] = "open"])]
    /\ bcast' = [bcast EXCEPT !.todo = @ \ {c}]
    /\ UNCHANGED <<contractVars, clientVars, ledgerVars, stats, sessions,
                   replies, crashed, bg, restVars, conns, blockUpdates,
                   lastBlock, observed,
                   published>>

\* broadcastUpdates: the range is over, s.clientsMux.RUnlock()
BroadcastRUnlock ==
    /\ ~crashed
    /\ bcast.pc = "loop"
    /\ bcast.todo = {}
    /\ bcast' = BroadcastIdle
    /\ UNCHANGED <<contractVars, clientVars, ledgerVars, stats, sessions,
                   replies, crashed, bg, restVars, conns, blockUpdates,
                   lastBlock, observed,
                   published, blockWrites>>

\* the peer of connection w stops reading: the connection's buffers are full
\* and a write to it does not return
PeerStall(w) ==
    /\ ~crashed
    /\ conns[w] = "open"
    /\ conns' = [conns EXCEPT ![w] = "stalled"]
    /\ UNCHANGED <<contractVars, clientVars, ledgerVars, stats, sessions,
                   replies, crashed, bg, restVars, bcast, blockUpdates, lastBlock,
                   observed, published, blockWrites>>

\* the peer of connection w reads again
PeerDrain(w) ==
    /\ ~crashed
    /\ conns[w] = "stalled"
    /\ conns' = [conns EXCEPT ![w] = "open"]
    /\ UNCHANGED <<contractVars, clientVars, ledgerVars, stats, sessions,
                   replies, crashed, bg, restVars, bcast, blockUpdates, lastBlock,
                   observed, published, blockWrites>>

\* ---------------------------------- connection handling, statement by statement
\* The handlers of a WebSocket connection and the fan-out with every lock
\* operation, every unlocked read of s.clients and the beginning and the end
\* of every conn.WriteJSON as steps of their own.

\* handleWebSocket: upgrader.Upgrade, the session built, s.clientsMux.Lock()
UpgradeLock(w) ==
    /\ At(w, "idle")
    /\ conns[w] = "none"
    /\ RegistryLockFree
    /\ conns' = [conns EXCEPT ![w] = "open"]
    /\ Goto(w, "register")
    /\ UNCHANGED <<contractVars, ledgerVars, contractMode, currentNonce,
                   nonceMux, clock, sendLog, startNonce, invoked, stats,
                   sessions, replies, crashed, bg, restVars, bcast,
                   blockUpdates, lastBlock, observed, published, blockWrites>>

\* handleWebSocket: s.clients[conn] = session; s.clientsMux.Unlock()
RegisterUnlock(w) ==
    /\ At(w, "register")
    /\ sessions' = [sessions EXCEPT ![w] = [NoSession EXCEPT !.open = TRUE]]
    /\ Goto(w, "logTotal")
    /\ UNCHANGED <<contractVars, ledgerVars, contractMode, currentNonce,
                   nonceMux, clock, sendLog, startNonce, invoked, stats,
                   replies, crashed, bg, restVars, fanVars>>

\* handleWebSocket: log.Printf(..., len(s.clients)), the map read with
\* s.clientsMux released
LogTotal(w) ==
    /\ At(w, "logTotal")
    /\ Goto(w, "welcome")
    /\ UNCHANGED <<contractVars, ledgerVars, contractMode, currentNonce,
                   nonceMux, clock, sendLog, startNonce, invoked, serverVars>>

\* goroutine w enters conn.WriteJSON on connection c with a message of type
\* `type`
WriteBegin(c, type) == writing' = [writing EXCEPT ![c] = @ \cup {type}]

\* conn.WriteJSON of the message of type `type` on connection c returns
WriteEnd(c, type) == writing' = [writing EXCEPT ![c] = @ \ {type}]

\* handleWebSocket: conn.WriteJSON(welcome) begins
WelcomeBegin(w) ==
    /\ At(w, "welcome")
    /\ WriteBegin(w, "connected")
    /\ Goto(w, "welcoming")
    /\ UNCHANGED <<contractVars, ledgerVars, contractMode, currentNonce,
                   nonceMux, clock, sendLog, startNonce, invoked, stats,
                   sessions, replies, crashed, bg, statsMux, browser, fanVars>>

\* handleWebSocket: conn.WriteJSON(welcome) returns, and
\* `go s.handleWSMessages(conn, session)` starts the message loop
WelcomeEnd(w) ==
    /\ At(w, "welcoming")
    /\ conns[w] # "stalled"
    /\ WriteEnd(w, "connected")
    /\ Goto(w, "idle")
    /\ UNCHANGED <<contractVars, ledgerVars, contractMode, currentNonce,
                   nonceMux, clock, sendLog, startNonce, invoked, stats,
                   sessions, replies, crashed, bg, statsMux, browser, fanVars>>

\* handleWSMessages, case "ping": conn.WriteJSON of the pong begins
PongBegin(w) ==
    /\ At(w, "idle")
    /\ conns[w] = "open"
    /\ sessions[w].open
    /\ WriteBegin(w, "pong")
    /\ Goto(w, "pong")
    /\ UNCHANGED <<contractVars, ledgerVars, contractMode, currentNonce,
                   nonceMux, clock, sendLog, startNonce, invoked, stats,
                   sessions, replies, crashed, bg, statsMux, browser, fanVars>>

\* handleWSMessages, case "ping": conn.WriteJSON of the pong returns
PongEnd(w) ==
    /\ At(w, "pong")
    /\ conns[w] # "stalled"
    /\ WriteEnd(w, "pong")
    /\ Goto(w, "idle")
    /\ UNCHANGED <<contractVars, ledgerVars, contractMode, currentNonce,
                   nonceMux, clock, sendLog, startNonce, invoked, stats,
                   sessions, replies, crashed, bg, statsMux, browser, fanVars>>

\* handleWSMessages, case "heartbeat", after ProcessReward returned: the
\* response is built, the session's earnings grow on success, and
\* conn.WriteJSON(response) begins
RespondBegin(w) ==
    /\ At(w, "returned")
    /\ calls[w].origin = "ws"
    /\ sessions' = [sessions EXCEPT
          ![w].TotalEarned = Credit(@, calls[w].err = "", calls[w].amount)]
    /\ WriteBegin(w, "reward")
    /\ Goto(w, "responding")
    /\ UNCHANGED <<contractVars, ledgerVars, contractMode, currentNonce,
                   nonceMux, clock, sendLog, startNonce, invoked, stats,
                   replies, crashed, bg, statsMux, browser, fanVars>>

\* handleWSMessages, case "heartbeat": conn.WriteJSON(response) returns
RespondEnd(w) ==
    /\ At(w, "responding")
    /\ conns[w] # "stalled"
    /\ LET success == calls[w].err = ""
       IN  Reply("ws", w, success,
                 IF success THEN NoError ELSE ErrorOf(calls[w]))
    /\ WriteEnd(w, "reward")
    /\ calls' = [calls EXCEPT ![w] = Idle]
    /\ UNCHANGED <<contractVars, ledgerVars, contractMode, currentNonce,
                   nonceMux, clock, sendLog, startNonce, invoked, stats,
                   sessions, crashed, bg, statsMux, browser, fanVars>>

\* handleWSMessages: ReadJSON fails, the loop ends, and the deferred function
\* takes s.clientsMux.Lock()
UnregisterLock(w) ==
    /\ At(w, "idle")
    /\ conns[w] = "gone"
    /\ RegistryLockFree
    /\ Goto(w, "unregister")
    /\ UNCHANGED <<contractVars, ledgerVars, contractMode, currentNonce,
                   nonceMux, clock, sendLog, startNonce, invoked, serverVars>>

\* the deferred function: delete(s.clients, conn); s.clientsMux.Unlock();
\* conn.Close()
UnregisterUnlock(w) ==
    /\ At(w, "unregister")
    /\ sessions' = [sessions EXCEPT ![w].open = FALSE]
    /\ conns' = [conns EXCEPT ![w] = "closed"]
    /\ Goto(w, "logRemaining")
    /\ UNCHANGED <<contractVars, ledgerVars, contractMode, currentNonce,
                   nonceMux, clock, sendLog, startNonce, invoked, stats,
                   replies, crashed, bg, restVars, bcast, blockUpdates,
                   lastBlock, observed, published, blockWrites>>

\* the deferred function: log.Printf(..., len(s.clients)), the map read with
\* s.clientsMux released; the goroutine ends
LogRemaining(w) ==
    /\ At(w, "logRemaining")
    /\ Goto(w, "idle")
    /\ UNCHANGED <<contractVars, ledgerVars, contractMode, currentNonce,
                   nonceMux, clock, sendLog, startNonce, invoked, serverVars>>

\* the connection broadcastUpdates is writing to
BroadcastTarget == { c \in Workers : "block" \in writing[c] }

\* broadcastUpdates: conn.WriteJSON(msg) begins for one connection of the
\* range, s.clientsMux held shared
BroadcastWriteBegin(c) ==
    /\ ~crashed
    /\ bcast.pc = "loop"
    /\ c \in bcast.todo
    /\ BroadcastTarget = {}
    /\ WriteBegin(c, "block")
    /\ UNCHANGED <<contractVars, clientVars, ledgerVars, stats, sessions,
                   replies, crashed, bg, statsMux, browser, fanVars>>

\* broadcastUpdates: conn.WriteJSON(msg) returns, its error dropped
BroadcastWriteEnd(c) ==
    /\ ~crashed
    /\ c \in BroadcastTarget
    /\ conns[c] # "stalled"
    /\ WriteEnd(c, "block")
    /\ blockWrites' = [blockWrites EXCEPT
                         ![c] = Append(@, [number |-> bcast.block,
                                           ok |-> conns[c] = "open"])]
    /\ bcast' = [bcast EXCEPT !.todo = @ \ {c}]
    /\ UNCHANGED <<contractVars, clientVars, ledgerVars, stats, sessions,
                   replies, crashed, bg, statsMux, browser, conns,
                   blockUpdates, lastBlock, observed, published>>

\* ------------------------------------------------------ the browser client

\* The reward messages the browser is handed: the `reward` message of the
\* socket and the HTTP response sendHeartbeatHttp passes on, with success
\* true or false and reward_wei absent, "0" or the reward per heartbeat.
RewardMessages ==
    [ success : BOOLEAN, has_reward_wei : {TRUE},
      reward_wei : {0, RewardPerHeartbeat} ]
    \cup [ success : BOOLEAN, has_reward_wei : {FALSE}, reward_wei : {0} ]

\* BigInt(data.reward_wei || fallback): the field's number, the fallback when
\* the field is absent
RewardWei(data, fallback) ==
    IF data.has_reward_wei THEN data.reward_wei ELSE fallback

\* startWatching: the session's counters are reset and the heartbeat timer
\* started
startWatching ==
    /\ ~browser.isWatching
    /\ browser' = [ChainPayApp EXCEPT !.isWatching = TRUE]
    /\ UNCHANGED <<contractVars, clientVars, ledgerVars, stats, sessions,
                   replies, crashed, bg, fanVars, statsMux, writing>>

\* stopWatching: the heartbeat timer is cleared
stopWatching ==
    /\ browser.isWatching
    /\ browser' = [browser EXCEPT !.isWatching = FALSE]
    /\ UNCHANGED <<contractVars, clientVars, ledgerVars, stats, sessions,
                   replies, crashed, bg, fanVars, statsMux, writing>>

\* handleRewardMessage(data): on success the heartbeat is counted and
\* reward_wei (0 when absent) added to the session earnings; on failure the
\* heartbeat is counted as well and reward_wei (1000 when absent) added
handleRewardMessage(data) ==
    /\ Len(browser.handled) < MaxMessages
    /\ browser' =
         [browser EXCEPT
            !.heartbeatCount = @ + 1,
            !.sessionEarnings =
                @ + (IF data.success THEN RewardWei(data, 0)
                     ELSE RewardWei(data, 1000)),
            !.handled = Append(@, data)]
    /\ UNCHANGED <<contractVars, clientVars, ledgerVars, stats, sessions,
                   replies, crashed, bg, fanVars, statsMux, writing>>

\* simulateDemoHeartbeat, called by sendHeartbeat in demo mode and by
\* sendHeartbeatHttp when the request fails: the heartbeat is counted and the
\* reward per heartbeat added, no message handled
simulateDemoHeartbeat ==
    /\ browser.isWatching
    /\ browser.heartbeatCount < MaxMessages
    /\ browser' = [browser EXCEPT
                     !.heartbeatCount = @ + 1,
                     !.sessionEarnings = @ + RewardPerHeartbeat]
    /\ UNCHANGED <<contractVars, clientVars, ledgerVars, stats, sessions,
                   replies, crashed, bg, fanVars, statsMux, writing>>

\* main: <-sigChan, then cancel()
Shutdown ==
    /\ ~crashed
    /\ ~bg.cancelled
    /\ bg' = [bg EXCEPT !.cancelled = TRUE]
    /\ UNCHANGED <<contractVars, clientVars, ledgerVars, stats, sessions,
                   replies, crashed, fanVars, restVars>>

\* blockMonitor: case <-ctx.Done(): return (the loop is at its select
\* whenever it is not inside a tick)
MonitorExit ==
    /\ ~crashed
    /\ bg.cancelled
    /\ bg.blockMonitor = "running"
    /\ bg' = [bg EXCEPT !.blockMonitor = "exited"]
    /\ UNCHANGED <<contractVars, clientVars, ledgerVars, stats, sessions,
                   replies, crashed, fanVars, restVars>>

\* rewardProcessor: case <-ctx.Done(): return (nothing sends on rewardQueue,
\* so the loop is always at its select)
ProcessorExit ==
    /\ ~crashed
    /\ bg.cancelled
    /\ bg.rewardProcessor = "running"
    /\ bg' = [bg EXCEPT !.rewardProcessor = "exited"]
    /\ UNCHANGED <<contractVars, clientVars, ledgerVars, stats, sessions,
                   replies, crashed, fanVars, restVars>>

\* broadcastUpdates: case <-ctx.Done(): return, taken at the select only
BroadcastExit ==
    /\ ~crashed
    /\ bg.cancelled
    /\ bg.broadcastUpdates = "running"
    /\ bcast.pc = "recv"
    /\ bg' = [bg EXCEPT !.broadcastUpdates = "exited"]
    /\ UNCHANGED <<contractVars, clientVars, ledgerVars, stats, sessions,
                   replies, crashed, fanVars, restVars>>

\* The server from start to shutdown: connections come and their peers read
\* or stop reading, blocks are polled and fanned out, and the signal cancels
\* the background context.
NextShutdown ==
    \/ \E w \in Conns : handleWebSocket(w)
    \/ \E w \in Conns : PeerStall(w)
    \/ \E w \in Conns : PeerDrain(w)
    \/ NewBlock(MaxHeight)
    \/ Poll
    \/ BroadcastReceive
    \/ BroadcastRLock
    \/ \E c \in Conns : BroadcastWrite(c)
    \/ BroadcastRUnlock
    \/ Shutdown
    \/ MonitorExit
    \/ ProcessorExit
    \/ BroadcastExit

\* recipients, amounts and clock readings the claim ID is computed from:
\* amounts of no, one and two bytes, clock readings of one and two bytes
HashRecipients == {1, 2}
HashAmounts == {0, 1, 257, RewardPerHeartbeat}
HashTimes == {2, 258, 259, 514}

\* the goroutines of SpecClaimID
Hashers == {1, 2}

\* two goroutines about to compute a claim ID, each with a recipient, an
\* amount and a clock reading of its own
InitClaimID ==
    /\ ServerStarted(TRUE, 0)
    /\ clock = MaxTime
    /\ height = 0
    /\ ContractInit(FundUnits * RewardPerHeartbeat)
    /\ calls \in { f \in [Workers -> { [Idle EXCEPT !.recipient = HexString(r),
                                                    !.amount = a, !.nanos = t] :
                                        r \in HashRecipients, a \in HashAmounts,
                                        t \in HashTimes } \cup {Idle}] :
                     \A w \in Workers : f[w] = Idle <=> w \notin Hashers }

\* sendContractReward, the claim ID alone: claimID := crypto.Keccak256Hash(...)
ComputeClaimID(w) ==
    /\ calls[w].pc = "idle"
    /\ w \in Hashers
    /\ calls' = [calls EXCEPT
           ![w].pc = "hashed",
           ![w].claimID = ClaimID(HexToAddress(calls[w].recipient),
                                  calls[w].amount, calls[w].nanos)]
    /\ UNCHANGED <<contractVars, ledgerVars, serverVars, contractMode,
                   currentNonce, nonceMux, clock, sendLog, startNonce, invoked>>

NextClaimID == \E w \in Hashers : ComputeClaimID(w)

\* the connections of SpecFanout
Peers == 1 .. (NumConns + 1)

InitFanout ==
    /\ ClientInit(TRUE, 0)
    /\ clock = MaxTime
    /\ height = 0
    /\ ContractInit(FundUnits * RewardPerHeartbeat)

NextFanout ==
    \/ \E w \in Peers : handleWebSocket(w)
    \/ \E w \in Peers : WSRegister(w, HexString(w))
    \/ \E w \in Peers : invoked < FanoutBeats /\ WSHeartbeat(w)
    \/ \E w \in Peers : WSRespond(w)
    \/ \E w \in Peers : PeerClose(w)
    \/ \E w \in Peers : WSDisconnect(w)
    \/ \E w \in Peers : ProcessRewardStep(w)
    \/ MineNext
    \/ NewBlock(MaxHeight)
    \/ Poll
    \/ BroadcastReceive
    \/ BroadcastRLock
    \/ \E c \in Peers : BroadcastWrite(c)
    \/ BroadcastRUnlock

\* The connections of a server taken statement by statement: they are
\* upgraded and registered, they ping, register a wallet, send a heartbeat and
\* are closed, while blocks are polled and fanned out.
NextConn ==
    \/ \E w \in Peers : UpgradeLock(w)
    \/ \E w \in Peers : RegisterUnlock(w)
    \/ \E w \in Peers : LogTotal(w)
    \/ \E w \in Peers : WelcomeBegin(w)
    \/ \E w \in Peers : WelcomeEnd(w)
    \/ \E w \in Peers : PongBegin(w)
    \/ \E w \in Peers : PongEnd(w)
    \/ \E w \in Peers : WSRegister(w, HexString(w))
    \/ \E w \in Peers : invoked < FanoutBeats /\ WSHeartbeat(w)
    \/ \E w \in Peers : ProcessRewardStep(w)
    \/ \E w \in Peers : RespondBegin(w)
    \/ \E w \in Peers : RespondEnd(w)
    \/ \E w \in Peers : PeerClose(w)
    \/ \E w \in Peers : UnregisterLock(w)
    \/ \E w \in Peers : UnregisterUnlock(w)
    \/ \E w \in Peers : LogRemaining(w)
    \/ MineNext
    \/ NewBlock(1)
    \/ Poll
    \/ BroadcastReceive
    \/ BroadcastRLock
    \/ \E c \in Peers : BroadcastWriteBegin(c)
    \/ \E c \in Peers : BroadcastWriteEnd(c)
    \/ BroadcastRUnlock

\* The monitor and the fan-out over a ledger whose latest block number rises
\* and falls, no connection registered.
NextReorg ==
    \/ NewBlock(MaxHeight)
    \/ Reorg
    \/ Poll
    \/ BroadcastReceive
    \/ BroadcastRLock
    \/ BroadcastRUnlock

\* the height the ledger reaches in SpecQueue: the channel's capacity and
\* QueueSlack blocks more
QueueTop == BlockUpdatesCap + QueueSlack

\* the ledger produces its next block once blockMonitor has seen the last one
NextBlockOnTime ==
    /\ height = lastBlock
    /\ NewBlock(QueueTop)

\* a tick of blockMonitor with a block on the ledger it has not seen
PollFresh ==
    /\ height > lastBlock
    /\ PollWithin(QueueTop)

\* The monitor filling the channel of snapshots faster than the fan-out
\* empties it: a block between any two polls, no connection registered.
NextQueue ==
    \/ NextBlockOnTime
    \/ PollFresh
    \/ BroadcastReceive
    \/ BroadcastRLock
    \/ BroadcastRUnlock

\* Concurrent HTTP heartbeats with the update of s.stats taken statement by
\* statement.
NextStats ==
    \/ \E w \in Workers \ Conns : handleHeartbeat(w, HexString(w))
    \/ \E w \in Workers \ Conns : ProcessRewardStep(w)
    \/ \E w \in Workers \ Conns : HeartbeatFail(w)
    \/ \E w \in Workers \ Conns : StatsLock(w)
    \/ \E w \in Workers \ Conns : StatsCount(w)
    \/ \E w \in Workers \ Conns : StatsAdd(w)
    \/ \E w \in Workers \ Conns : StatsUnlock(w)
    \/ \E w \in Workers \ Conns : HeartbeatSucceed(w)

\* The browser client: watching is started and stopped, reward messages
\* arrive, and heartbeats are simulated locally.
NextBrowser ==
    \/ startWatching
    \/ stopWatching
    \/ \E data \in RewardMessages : handleRewardMessage(data)
    \/ simulateDemoHeartbeat

\* the heights the ledger shows the polls of SpecMonitor
ScenarioHeights == <<5, 5, 6, 8>>

InitMonitor ==
    /\ ClientInit(TRUE, 0)
    /\ clock = MaxTime
    /\ height = ScenarioHeights[1]
    /\ ContractInit(FundUnits * RewardPerHeartbeat)

NextMonitor ==
    \/ NewBlock(ScenarioHeights[Len(ScenarioHeights)])
    \/ Poll
    \/ \E w \in Conns : handleWebSocket(w)
    \/ BroadcastReceive
    \/ BroadcastRLock
    \/ \E c \in Conns : BroadcastWrite(c)
    \/ BroadcastRUnlock

\* rewards the treasury of SpecSettle is deployed with: two less than there
\* are heartbeats
SettleUnits == MaxCalls - 2

InitSettle ==
    /\ ClientInit(TRUE, 0)
    /\ clock = 1
    /\ height = 0
    /\ ContractInit(SettleUnits * RewardPerHeartbeat)

NextSettle ==
    \/ \E w \in Conns : handleWebSocket(w)
    \/ \E w \in Conns : \E addr \in {HexString(w), EmptyString} :
           WSRegister(w, addr)
    \/ \E w \in Conns : WSHeartbeat(w)
    \/ \E w \in Conns : WSRespond(w)
    \/ \E w \in Workers \ Conns : \E wallet \in {EmptyString, HexString(w)} :
           handleHeartbeat(w, wallet)
    \/ \E w \in Workers \ Conns : HeartbeatRespond(w)
    \/ \E w \in Workers : ProcessRewardStep(w)
    \/ MineNext

InitContract ==
    /\ \E value \in {0, FundUnits * RewardPerHeartbeat} : ContractInit(value)
    /\ ClientInit(TRUE, 0)
    /\ clock = 1
    /\ height = 0

NextContract ==
    \/ \E sender \in Callers, recipient \in Recipients, amount \in Amounts,
          claimId \in ClaimIds :
           ProcessRewardCall(sender, recipient, amount, claimId)
    \/ \E b \in BatchInputs :
           BatchProcessRewardsCall(b.sender, b.recipients, b.amounts, b.claimIds)
    \/ \E sender \in Funders, value \in {0, RewardPerHeartbeat} :
           FundTreasuryCall(sender, value)
    \/ \E sender \in Callers, newSigner \in {DeployerAddr, NullAddr} :
           SetRewardSignerCall(sender, newSigner)

\* The contract under its owner's administration: rewards and deposits next
\* to the four owner-only functions, each called by the deployer and by the
\* signer.
NextAdmin ==
    \/ \E sender \in Callers, recipient \in {1}, amount \in Amounts,
          claimId \in ClaimIds :
           ProcessRewardCall(sender, recipient, amount, claimId)
    \/ \E sender \in Funders, value \in {0, RewardPerHeartbeat} :
           FundTreasuryCall(sender, value)
    \/ \E sender \in Callers, newSigner \in {DeployerAddr, NullAddr} :
           SetRewardSignerCall(sender, newSigner)
    \/ \E sender \in Callers, newRate \in Rates :
           SetRewardRateCall(sender, newRate)
    \/ \E sender \in Callers, to \in {NullAddr, DeployerAddr, RejectorAddr},
          amount \in WithdrawAmounts :
           EmergencyWithdrawCall(sender, to, amount)
    \/ \E sender \in Callers,
          newOwner \in {NullAddr, SignerAddr, DeployerAddr} :
           TransferOwnershipCall(sender, newOwner)

\* The contract's funds: deposits through fundTreasury and receive, rewards
\* one by one and in batches to a user, to the contract itself and to a
\* contract that rejects payments, and withdrawals by the owner.
NextFunds ==
    \/ \E recipient \in Recipients, amount \in Amounts, claimId \in ClaimIds :
           ProcessRewardCall(SignerAddr, recipient, amount, claimId)
    \/ \E b \in BatchInputs :
           BatchProcessRewardsCall(b.sender, b.recipients, b.amounts, b.claimIds)
    \/ \E sender \in Funders, value \in {0, RewardPerHeartbeat} :
           FundTreasuryCall(sender, value)
    \/ \E sender \in Funders, value \in {0, RewardPerHeartbeat} :
           ReceiveCall(sender, value)
    \/ \E sender \in Callers,
          to \in {NullAddr, DeployerAddr, RejectorAddr, TreasuryAddr},
          amount \in WithdrawAmounts :
           EmergencyWithdrawCall(sender, to, amount)

\* The client called by one caller at a time, each call returning before the
\* next begins, with the ledger mining what was submitted.
NextSerial ==
    \/ \E w \in Workers : \E a \in Arguments(w) :
           InvokeAlone(w, a.recipient, a.amount)
    \/ \E w \in Workers : ProcessRewardStep(w)
    \/ MineNext

SpecContract == InitContract /\ [][NextContract]_vars

SpecClient == InitClient /\ [][NextClient]_vars

SpecSettle == InitSettle /\ [][NextSettle]_vars

SpecFanout == InitFanout /\ [][NextFanout]_vars

SpecMonitor == InitMonitor /\ [][NextMonitor]_vars

SpecAdmin == InitContract /\ [][NextAdmin]_vars

SpecFunds == InitContract /\ [][NextFunds]_vars

SpecConn == InitFanout /\ [][NextConn]_vars

SpecReorg == InitFanout /\ [][NextReorg]_vars

SpecBrowser == InitFanout /\ [][NextBrowser]_vars

SpecStats == InitFanout /\ [][NextStats]_vars

SpecSerial == InitClient /\ [][NextSerial]_vars

SpecClaimID == InitClaimID /\ [][NextClaimID]_vars

\* The scheduler runs every goroutine that can take a step, and a select
\* with several ready cases picks among them at random, so a loop that is at
\* its select again and again with ctx.Done() ready takes that case in the
\* end; a write that waits for its peer returns once the peer reads. Nothing
\* obliges a peer to read, the ledger to produce a block or the operator to
\* send the signal.
FairShutdown ==
    /\ WF_vars(Poll)
    /\ WF_vars(BroadcastReceive)
    /\ WF_vars(BroadcastRLock)
    /\ \A c \in Conns : SF_vars(BroadcastWrite(c))
    /\ WF_vars(BroadcastRUnlock)
    /\ SF_vars(MonitorExit)
    /\ WF_vars(ProcessorExit)
    /\ SF_vars(BroadcastExit)

SpecShutdown == InitFanout /\ [][NextShutdown]_vars /\ FairShutdown

\* broadcastUpdates is a goroutine of its own: the scheduler runs it whenever
\* it can take a step, and with no connection registered none of its steps
\* waits for a peer
FairQueue ==
    /\ WF_vars(BroadcastReceive)
    /\ WF_vars(BroadcastRLock)
    /\ WF_vars(BroadcastRUnlock)

SpecQueue == InitFanout /\ [][NextQueue]_vars /\ FairQueue

\* -------------------------------------------------------------- properties

\* how many elements of a bag satisfy a test
CountIn(bag, Test(_)) ==
    LET S == { e \in BagToSet(bag) : Test(e) }
    IN  BagCardinality([e \in S |-> bag[e]])

\* value transfers the contract has made for claim id c
PayoutsOf(c) == CountIn(transfers, LAMBDA e : e.id = c)
\* RewardClaimed events the contract has emitted for claim id c
ClaimEventsOf(c) ==
    CountIn(events, LAMBDA e : e.name = "RewardClaimed" /\ e.id = c)

\* C3: after any sequence of processReward and batchProcessRewards calls,
\* successful or reverted, every claim id has caused at most one payout and at
\* most one RewardClaimed event, and a claim id that isClaimProcessed reports
\* as consumed is reported as consumed ever after.
C3_OnePayoutPerClaim ==
    /\ [](\A c \in ClaimIds : PayoutsOf(c) <= 1 /\ ClaimEventsOf(c) <= 1)
    /\ [][\A c \in ClaimIds : isClaimProcessed(c) => isClaimProcessed(c)']_vars

\* C3 witness: a claim has been paid once, and the call just made named a
\* processed claim again and was reverted for it
C3_Witness ==
    /\ \E c \in ClaimIds :
          isClaimProcessed(c) /\ PayoutsOf(c) = 1 /\ ClaimEventsOf(c) = 1
    /\ lastCall.fn \in {"processReward", "batchProcessRewards"}
    /\ lastCall.err = "reward already claimed"

\* a step that is a processReward call naming a claim id already processed
SecondCall == lastCall'.fn = "processReward" /\ lastCall'.wasClaimed

\* the contract's balance, totals, earnings, events and transfers stay as
\* they were
LedgerUntouched ==
    /\ balances' = balances
    /\ treasury' = treasury
    /\ events' = events
    /\ transfers' = transfers

\* C4 as stated: a processReward call naming a claim id already processed
\* fails with "reward already claimed" and changes neither the balance nor the
\* totals nor any user's earnings, whatever recipient and amount it carries.
C4_SecondCallIsDuplicateError ==
    [][SecondCall => /\ ~lastCall'.ok
                     /\ lastCall'.err = "reward already claimed"
                     /\ LedgerUntouched]_vars

\* C4 amended: a processReward call naming a claim id already processed is
\* reverted and changes neither the balance nor the totals nor any user's
\* earnings, whatever sender, recipient and amount it carries; its error is
\* "reward already claimed" when the sender is the reward signer, the
\* recipient is not the null address and the amount is positive.
C4_SecondCallReverts ==
    [][SecondCall =>
         /\ ~lastCall'.ok
         /\ LedgerUntouched
         /\ (lastCall'.sender = treasury.rewardSigner
              /\ lastCall'.recipient # NullAddr /\ lastCall'.amount > 0)
            => lastCall'.err = "reward already claimed"
         /\ lastCall'.err = "reward already claimed"
            => (lastCall'.sender = treasury.rewardSigner
                /\ lastCall'.recipient # NullAddr /\ lastCall'.amount > 0)]_vars

\* C4 witness: the signer named a processed claim again, for a payable
\* recipient and amount, and the call failed as a duplicate
C4_Witness ==
    /\ lastCall.fn = "processReward"
    /\ lastCall.wasClaimed
    /\ lastCall.sender = SignerAddr
    /\ lastCall.recipient = 1
    /\ lastCall.amount = RewardPerHeartbeat
    /\ lastCall.err = "reward already claimed"

\* the entries of sendLog whose SendTransaction returned nil
Sent == { i \in DOMAIN sendLog : sendLog[i].ok }
\* the sequence numbers the successfully submitted transactions carry
SentNonces == { sendLog[i].nonce : i \in Sent }
\* every ProcessReward call of the run has been made and has returned
AllReturned ==
    /\ invoked = MaxCalls
    /\ \A w \in Workers : calls[w].pc \in {"idle", "returned"}

\* C1: in every interleaving of concurrent ProcessReward calls on one client,
\* in either mode and with any step failing, no two transactions whose
\* SendTransaction returned success carry the same nonce.
C1_NoDuplicateNonce ==
    \A i, j \in Sent : i # j => sendLog[i].nonce # sendLog[j].nonce

\* C2: once all the attempts made while the counter was k have returned, the
\* nonces of the successfully submitted transactions are pairwise distinct
\* and are the contiguous range that starts at k, and no nonce below the
\* final value of the counter is left unused.
C2_ContiguousNonces ==
    AllReturned =>
        /\ \A i, j \in Sent : i # j => sendLog[i].nonce # sendLog[j].nonce
        /\ SentNonces = startNonce .. (startNonce + Cardinality(SentNonces) - 1)
        /\ \A n \in startNonce .. (currentNonce - 1) : n \in SentNonces

\* C6: the signing account's transactions reach the ledger in the order of
\* their nonces: of two attempts, the one holding the lower nonce has its
\* SendTransaction issued before the one holding the higher nonce, and the
\* nonces of the accepted transactions increase strictly.
C6_SentInNonceOrder ==
    \A i, j \in DOMAIN sendLog :
        i < j => /\ sendLog[i].nonce <= sendLog[j].nonce
                 /\ (sendLog[i].ok /\ sendLog[j].ok)
                    => sendLog[i].nonce < sendLog[j].nonce

\* the ProcessReward call on goroutine w has made no call to the ledger and
\* has not touched the nonce counter
NothingDone(w) ==
    calls[w].rpcs = 0 /\ calls[w].acquired = 0 /\ calls[w].rolledBack = 0

\* C7: ProcessReward called with amount 0 makes no call to the ledger (no gas
\* price query, gas estimation or submission), leaves the nonce counter alone
\* and returns an invalid-amount error, in contract mode and in direct mode.
C7_ZeroAmountRejected ==
    \A w \in Workers :
        (calls[w].origin = "call" /\ calls[w].amount = 0
         /\ IsHexAddress(calls[w].recipient)) =>
            /\ NothingDone(w)
            /\ calls[w].pc = "returned" => calls[w].err = "invalid amount"

\* C8: ProcessReward called with the null address as recipient makes no call
\* to the ledger, leaves the nonce counter alone and returns an error, in
\* contract mode and in direct mode.
C8_NullRecipientRejected ==
    \A w \in Workers :
        (calls[w].origin = "call"
         /\ calls[w].recipient = HexString(NullAddr)) =>
            /\ NothingDone(w)
            /\ calls[w].pc = "returned" => calls[w].err # ""

\* goroutine w is in or back from a call whose recipient is no hex address
Malformed(w) == calls[w].origin # "none" /\ calls[w].recipient.kind # "hex"

\* C9: ProcessReward called with a recipient that is no hex address returns
\* the invalid-recipient error at once: it makes no call to the ledger and
\* acquires no nonce, and the step that makes the call leaves the nonce
\* counter, its lock and the ledger's pending transactions as they were.
C9_MalformedRecipientRejected ==
    /\ [](\A w \in Workers :
            Malformed(w) => /\ calls[w].pc = "returned"
                            /\ calls[w].err = "invalid recipient address"
                            /\ calls[w].txHash = ""
                            /\ NothingDone(w))
    /\ [][\A w \in Workers :
            (Malformed(w)' /\ invoked' # invoked /\ calls'[w].pc = "returned"
             /\ (calls[w].pc # "returned" \/ ~Malformed(w)))
            => /\ currentNonce' = currentNonce
               /\ nonceMux' = nonceMux
               /\ sendLog' = sendLog
               /\ txpool' = txpool]_vars

\* C9 witness: a call with a malformed recipient has returned while another
\* goroutine holds a nonce it has not yet sent
C9_Witness ==
    \E w, v \in Workers :
        /\ Malformed(w)
        /\ calls[w].pc = "returned"
        /\ calls[v].pc \in {"estimate", "send"}
        /\ currentNonce = startNonce + 1

\* outcome messages written so far that report success, or failure
Reported(success) == CountIn(replies, LAMBDA m : m.success = success)
\* outcome messages written to the caller served by goroutine w
RepliesTo(w) == CountIn(replies, LAMBDA m : m.to = w)
\* successful outcome messages written to the connection of goroutine w
RewardedOn(w) ==
    CountIn(replies, LAMBDA m : m.origin = "ws" /\ m.to = w /\ m.success)

\* Every goroutine has handled one heartbeat, each for its own wallet, all
\* the answers are written and every submitted transaction is mined; no
\* attempt failed for a reason that lies outside the treasury: a missing
\* wallet, a failed signature or a failed connection to the ledger.
AllSettled ==
    /\ invoked = MaxCalls
    /\ \A w \in Workers : calls[w].pc = "idle" /\ RepliesTo(w) = 1
    /\ DOMAIN txpool = {}
    /\ \A m \in BagToSet(replies) :
          /\ m.error[1] # "Wallet address required"
          /\ m.error[2] \notin {"rpc", "sign"}

\* C5, with treasury balance SettleUnits rewards and MaxCalls = SettleUnits + 2
\* concurrent attempts for distinct recipients: exactly SettleUnits attempts
\* are reported to their callers as successful and exactly two as failed, and
\* the contract ends with balance 0, SettleUnits rewards distributed and
\* SettleUnits claims processed.
C5_SuccessesMatchBalance ==
    AllSettled =>
        /\ Reported(TRUE) = SettleUnits
        /\ Reported(FALSE) = 2
        /\ balances[TreasuryAddr] = 0
        /\ treasury.totalRewardsDistributed = SettleUnits * RewardPerHeartbeat
        /\ treasury.totalClaimsProcessed = SettleUnits

\* C10: every successful settlement has added one to its session's heartbeat
\* count and the reward to the session's earnings, and one to the server's
\* total heartbeats and the reward to its total rewards, whether the
\* heartbeat came over a WebSocket connection or over HTTP.
C10_CountersFollowSuccess ==
    /\ \A w \in Conns :
          /\ sessions[w].Heartbeats >= RewardedOn(w)
          /\ sessions[w].TotalEarned = RewardedOn(w) * RewardPerHeartbeat
    /\ stats.TotalHeartbeats = Reported(TRUE)
    /\ stats.TotalRewards = Reported(TRUE) * RewardPerHeartbeat

\* outcome messages of kind `origin` written for the attempts of goroutine w
\* that report failure
FailedFor(origin, w) ==
    CountIn(replies, LAMBDA m : m.origin = origin /\ m.for = w /\ ~m.success)

\* goroutine w writes the outcome of an attempt whose ProcessReward returned
\* an error
FailureReported(w) ==
    /\ calls[w].pc = "returned"
    /\ calls[w].err # ""
    /\ calls'[w].pc = "idle"

\* C11: a failed submission is reported with success = false and an error
\* text, and the step that reports it leaves the session's earned amount and
\* the server's total rewards as they were; so at every moment a session's
\* earned amount is the reward times the number of its heartbeats whose
\* submission succeeded.
C11_FailureLeavesEarnings ==
    /\ [](/\ \A w \in Conns :
                sessions[w].TotalEarned = RewardedOn(w) * RewardPerHeartbeat
          /\ \A m \in BagToSet(replies) : ~m.success => m.error # NoError)
    /\ [][\A w \in Workers :
            FailureReported(w) =>
               /\ sessions'[w].TotalEarned = sessions[w].TotalEarned
               /\ stats'.TotalRewards = stats.TotalRewards
               /\ \E origin \in {"ws", "http"} :
                     /\ origin = calls[w].origin
                     /\ FailedFor(origin, w)' = FailedFor(origin, w) + 1
               /\ Reported(TRUE)' = Reported(TRUE)]_vars

\* a session with one rewarded heartbeat and one failed one
C11_Witness ==
    \E w \in Conns :
        /\ RewardedOn(w) = 1
        /\ FailedFor("ws", w) = 1
        /\ sessions[w].Heartbeats = 2
        /\ sessions[w].TotalEarned = RewardPerHeartbeat

\* the goroutines inside an attempt: ProcessReward was called and the outcome
\* is not written yet
Unanswered == { w \in Workers : calls[w].pc # "idle" }

\* a step that takes the attempt of goroutine w towards its outcome message
Forward(w) == ProcessRewardStep(w) \/ WSRespond(w) \/ HeartbeatRespond(w)

\* C12: every attempt begun is either answered with one outcome message,
\* written to the caller that made it, or still on its way to one: the
\* messages written and the attempts in flight add up to the attempts begun,
\* and while an attempt is in flight some attempt can take its next step.
C12_EveryAttemptAnswered ==
    /\ BagCardinality(replies) + Cardinality(Unanswered) = invoked
    /\ \A m \in BagToSet(replies) : m.to = m.for
    /\ Unanswered # {} => ENABLED (\E w \in Workers : Forward(w))

\* the peer of connection w closed it while goroutine w is inside an attempt
ClosedInFlight(w) == conns[w] = "gone" /\ calls[w].pc # "idle"

\* C13: an attempt whose connection the peer has closed goes on: its next
\* step is enabled unless it waits for nonceMux, and when ProcessReward returns
\* it has submitted the transaction or given back every nonce it took; the
\* session leaves the registry only after its attempt is over, and once it has
\* left, no step writes a block event or an outcome message to its connection.
C13_ClosedSessionSettlesUnwritten ==
    /\ [](\A w \in Peers :
            /\ ClosedInFlight(w) =>
                  \/ ENABLED Forward(w)
                  \/ calls[w].pc \in {"lock", "relock"} /\ nonceMux # 0
            /\ ClosedInFlight(w) /\ calls[w].pc = "returned" =>
                  \/ calls[w].err = "" /\ calls[w].txHash # ""
                  \/ calls[w].err # "" /\ calls[w].acquired = calls[w].rolledBack
            /\ conns[w] = "closed" => calls[w].pc = "idle" /\ ~sessions[w].open)
    /\ [][\A w \in Peers :
            conns[w] = "closed" =>
               /\ blockWrites'[w] = blockWrites[w]
               /\ RepliesTo(w)' = RepliesTo(w)]_vars

\* the peer closed connection w during the attempt, ProcessReward returned
\* success all the same and the ledger has paid the reward; another session
\* has left the registry and a block event was written after it left
C13_Witness ==
    \E w \in Peers :
        /\ ClosedInFlight(w)
        /\ calls[w].pc = "returned"
        /\ calls[w].err = ""
        /\ balances[w] = RewardPerHeartbeat
        /\ \E v \in Peers \ {w} :
              /\ conns[v] = "closed"
              /\ Len(blockWrites[w]) > Len(blockWrites[v])

HeightsWritten(c) == [i \in 1 .. Len(blockWrites[c]) |-> blockWrites[c][i].number]

\* C15: on every connection the block events are written in strictly
\* increasing order of height.
C15_BlockEventsAscend ==
    \A c \in Peers :
        \A i, j \in 1 .. Len(blockWrites[c]) :
            i < j => HeightsWritten(c)[i] < HeightsWritten(c)[j]

\* two block events were written to one connection while another connection,
\* registered later, got only the second
C15_Witness ==
    \E c, d \in Peers :
        /\ Len(blockWrites[c]) = 2
        /\ Len(blockWrites[d]) = 1
        /\ HeightsWritten(d)[1] = HeightsWritten(c)[2]

\* the block event of the snapshot that broadcastUpdates holds was the last
\* one written to connection c
WrittenCurrent(c) ==
    /\ blockWrites[c] # << >>
    /\ blockWrites[c][Len(blockWrites[c])].number = bcast.block

\* C16: while broadcastUpdates ranges over the registry, every connection of
\* the registry has been written the snapshot or is still to be written, the
\* registry does not change, and when the range ends every connection of the
\* registry was written the snapshot, whether or not a write failed; every
\* outcome message is written to the connection whose heartbeat it answers,
\* one for each heartbeat at most.
C16_FanoutReachesAllOutcomeOnlyOrigin ==
    /\ [](/\ bcast.pc = "loop" =>
               \A c \in Registry : c \in bcast.todo \/ WrittenCurrent(c)
          /\ \A m \in BagToSet(replies) : m.to = m.for
          /\ \A c \in Peers : RepliesTo(c) <= sessions[c].Heartbeats)
    /\ [][/\ bcast.pc = "loop" => Registry' = Registry
          /\ bcast.pc = "loop" /\ bcast'.pc = "recv" =>
               \A c \in Registry : WrittenCurrent(c)]_vars

\* a snapshot was written to both connections of the registry, the write to
\* one of them failed, and an outcome message was written to one session while
\* the other was registered
C16_Witness ==
    \E c, d \in Peers :
        /\ bcast.pc = "loop" /\ bcast.todo = {}
        /\ WrittenCurrent(c) /\ ~blockWrites[c][Len(blockWrites[c])].ok
        /\ WrittenCurrent(d) /\ blockWrites[d][Len(blockWrites[d])].ok
        /\ RepliesTo(d) = 1
        /\ RepliesTo(c) = 0

\* successful settlements since deployment: the RewardClaimed events emitted
Settlements == CountIn(events, LAMBDA e : e.name = "RewardClaimed")

\* settlements whose recipient was the contract itself
SelfPaid == CountIn(transfers, LAMBDA e : e.to = TreasuryAddr)

\* nothing but settlements was done to the contract since its deployment: the
\* deployer still holds what the deployment left it
OnlySettlements == balances[DeployerAddr] = RewardPerHeartbeat

\* msg.value of the deployment, as the TreasuryFunded event of the constructor
\* recorded it
InitialFunding ==
    LET S == { e \in BagToSet(events) :
                 e.name = "TreasuryFunded" /\ e.who = DeployerAddr }
    IN  IF S = {} THEN 0 ELSE (CHOOSE e \in S : TRUE).amount

\* C17 as stated: after K successful settlements of RewardPerHeartbeat each on
\* a freshly deployed contract, GetContractStats reports K rewards
\* distributed, K claims and a balance of the initial funding less K rewards.
C17_StatsAfterSettlements ==
    OnlySettlements =>
        LET s == GetContractStats(World)
        IN  /\ s.TotalDistributed = Settlements * RewardPerHeartbeat
            /\ s.TotalClaims = Settlements
            /\ s.Balance = InitialFunding - Settlements * RewardPerHeartbeat

\* C17, amended: after K successful settlements of RewardPerHeartbeat each on
\* a freshly deployed contract, GetContractStats reports K rewards
\* distributed, K claims and a balance of the initial funding less one reward
\* for each settlement whose recipient is not the contract itself.
C17_StatsAfterSettlementsElsewhere ==
    OnlySettlements =>
        LET s == GetContractStats(World)
        IN  /\ s.TotalDistributed = Settlements * RewardPerHeartbeat
            /\ s.TotalClaims = Settlements
            /\ s.Balance = InitialFunding
                           - (Settlements - SelfPaid) * RewardPerHeartbeat

\* two settlements on a funded contract, one of them paid to a user
C17_Witness ==
    /\ OnlySettlements
    /\ Settlements = 2
    /\ SelfPaid = 1
    /\ InitialFunding = FundUnits * RewardPerHeartbeat
    /\ GetContractStats(World).Balance = (FundUnits - 1) * RewardPerHeartbeat

\* a step that is a batchProcessRewards call
BatchCall == lastCall'.fn = "batchProcessRewards"

\* the errors of the checks batchProcessRewards makes on an entry or on the
\* sum of the amounts
EntryErrors ==
    { "invalid recipient", "amount must be positive", "reward already claimed",
      "transfer failed", "insufficient treasury balance" }

\* C18: a batchProcessRewards call that fails on an entry or on the balance
\* reverts as a whole: no claim id is marked, no total and no user's earnings
\* change, nobody is paid and no event is emitted, also for the entries before
\* the failing one.
C18_BatchAllOrNothing ==
    [][BatchCall /\ lastCall'.err \in EntryErrors =>
          ~lastCall'.ok /\ LedgerUntouched]_vars

\* a batch of two entries failed on the second as a duplicate of the first (no
\* claim was processed before it), and the claim of the first is not marked
\* and not paid
C18_Witness ==
    /\ lastCall.fn = "batchProcessRewards"
    /\ lastCall.err = "reward already claimed"
    /\ lastCall.lengths = <<2, 2, 2>>
    /\ treasury.claimedRewards = {}
    /\ treasury.totalClaimsProcessed = 0
    /\ transfers = EmptyBag
    /\ balances[TreasuryAddr] = FundUnits * RewardPerHeartbeat

\* the three arrays of the batch call just made have one length
SameLengths(call) ==
    call.lengths[1] = call.lengths[2] /\ call.lengths[2] = call.lengths[3]

\* C19: a batchProcessRewards call with no entry, with more than MaxBatchSize
\* entries or with arrays of different lengths is reverted and leaves the
\* contract as it was; from the reward signer the error names the check that
\* failed.
C19_BatchShapeRejected ==
    [][BatchCall /\ (\/ ~SameLengths(lastCall')
                     \/ lastCall'.lengths[1] = 0
                     \/ lastCall'.lengths[1] > MaxBatchSize) =>
          /\ ~lastCall'.ok
          /\ LedgerUntouched
          /\ lastCall'.sender = treasury.rewardSigner =>
                lastCall'.err =
                   IF ~SameLengths(lastCall') THEN "array length mismatch"
                   ELSE IF lastCall'.lengths[1] = 0 THEN "empty batch"
                   ELSE "batch too large"]_vars

\* a batch of MaxBatchSize + 1 entries was refused for its size after an
\* earlier settlement
C19_Witness ==
    /\ lastCall.fn = "batchProcessRewards"
    /\ lastCall.lengths[1] = MaxBatchSize + 1
    /\ lastCall.err = "batch too large"
    /\ treasury.totalClaimsProcessed = 1

\* a step that is a processReward or batchProcessRewards call
RewardCall == lastCall'.fn \in {"processReward", "batchProcessRewards"}

\* C20: a processReward or batchProcessRewards call from an address that is
\* not the current rewardSigner is reverted with the contract left as it was,
\* and a call that is accepted comes from the current rewardSigner; after a
\* successful setRewardSigner(new) by the owner, a call from the previous
\* signer is refused as not being the signer and a call from the new one
\* passes that check and pays an unclaimed reward the balance covers.
C20_OnlyCurrentSigner ==
    [][/\ RewardCall /\ lastCall'.sender # treasury.rewardSigner =>
             /\ ~lastCall'.ok
             /\ lastCall'.err = "caller is not reward signer"
             /\ LedgerUntouched
       /\ RewardCall /\ lastCall'.ok => lastCall'.sender = treasury.rewardSigner
       /\ lastCall'.fn = "setRewardSigner" /\ lastCall'.ok =>
             /\ lastCall'.sender = treasury.owner
             /\ treasury'.rewardSigner = lastCall'.recipient
             /\ \A c \in ClaimIds :
                   /\ treasury.rewardSigner # treasury'.rewardSigner =>
                         processReward(World', treasury.rewardSigner, 1,
                                       RewardPerHeartbeat, c).err
                            = "caller is not reward signer"
                   /\ processReward(World', treasury'.rewardSigner, 1,
                                       RewardPerHeartbeat, c).err
                         # "caller is not reward signer"
                   /\ (~isClaimProcessed(c)
                       /\ balances[TreasuryAddr] >= RewardPerHeartbeat) =>
                         processReward(World', treasury'.rewardSigner, 1,
                                       RewardPerHeartbeat, c).ok]_vars

\* the owner made itself the reward signer; the former signer's call was then
\* refused and the new signer's call has paid a reward
C20_Witness ==
    /\ treasury.rewardSigner = DeployerAddr
    /\ lastCall.fn = "processReward"
    /\ lastCall.sender = DeployerAddr
    /\ lastCall.ok
    /\ SignerUpdates = 1
    /\ Settlements = 1

\* a step that is a processReward call made by the reward signer of the
\* moment
SignerRewardCall ==
    lastCall'.fn = "processReward" /\ lastCall'.sender = treasury.rewardSigner

\* the call of the step names a zero amount, the null recipient, or more than
\* the contract holds
Unpayable ==
    \/ lastCall'.amount = 0
    \/ lastCall'.recipient = NullAddr
    \/ balances[TreasuryAddr] < lastCall'.amount

\* C21: a processReward call made by the reward signer is reverted when the
\* amount is zero, when the recipient is the null address, or when the
\* contract holds less than the amount; the balance, the totals, the
\* earnings, the events and the set of consumed claim ids stay as they were,
\* and a claim id that was not consumed before the call can be settled by the
\* signer's next call for a payable recipient once the contract holds the
\* amount.
C21_UnpayableCallLeavesClaimOpen ==
    [][(SignerRewardCall /\ Unpayable) =>
         /\ ~lastCall'.ok
         /\ lastCall'.err \in {"invalid recipient", "amount must be positive",
                               "reward already claimed",
                               "insufficient treasury balance"}
         /\ LedgerUntouched
         /\ (lastCall'.id \in treasury'.claimedRewards) = lastCall'.wasClaimed
         /\ (~lastCall'.wasClaimed
              /\ balances'[TreasuryAddr] >= RewardPerHeartbeat)
            => processReward(World', treasury'.rewardSigner, 1,
                             RewardPerHeartbeat, lastCall'.id).ok]_vars

\* C21 witness: the signer asked for a reward the contract could not pay, the
\* call failed for the balance and its claim id is still not consumed
C21_Witness ==
    /\ lastCall.fn = "processReward"
    /\ lastCall.sender = treasury.rewardSigner
    /\ lastCall.recipient = 1
    /\ lastCall.amount = RewardPerHeartbeat
    /\ lastCall.err = "insufficient treasury balance"
    /\ ~isClaimProcessed(lastCall.id)
    /\ treasury.totalClaimsProcessed = 0

\* amount taken from the balance of one account and added to that of another
Moved(bal, from, to, amount) ==
    LET debited == [bal EXCEPT ![from] = @ - amount]
    IN  [debited EXCEPT ![to] = @ + amount]

\* the RewardClaimed event of the call of the step
ClaimEvent ==
    [ name |-> "RewardClaimed", who |-> lastCall'.recipient,
      amount |-> lastCall'.amount, id |-> lastCall'.id ]

\* C22: a processReward call that succeeds marks its claim id consumed, adds
\* the amount to totalRewardsDistributed, one to totalClaimsProcessed and the
\* amount to the recipient's cumulative earnings, takes the amount from the
\* contract's balance and gives it to the recipient in one transfer, and emits
\* one RewardClaimed event for the recipient, the amount and the claim id; no
\* other user's earnings change, and neither do owner, rewardSigner and
\* rewardPerHeartbeat.
C22_SuccessfulRewardEffects ==
    [][(lastCall'.fn = "processReward" /\ lastCall'.ok) =>
         LET to == lastCall'.recipient
             amount == lastCall'.amount
         IN  /\ ~lastCall'.wasClaimed
             /\ treasury'.claimedRewards =
                   treasury.claimedRewards \cup {lastCall'.id}
             /\ treasury'.totalRewardsDistributed =
                   treasury.totalRewardsDistributed + amount
             /\ treasury'.totalClaimsProcessed =
                   treasury.totalClaimsProcessed + 1
             /\ treasury'.userTotalEarnings =
                   [treasury.userTotalEarnings EXCEPT ![to] = @ + amount]
             /\ balances' = Moved(balances, TreasuryAddr, to, amount)
             /\ transfers' = Emit(transfers, [to |-> to, amount |-> amount,
                                              id |-> lastCall'.id])
             /\ CopiesIn(ClaimEvent, events')
                   = CopiesIn(ClaimEvent, events) + 1
             /\ CountIn(events', LAMBDA e : e.name = "RewardClaimed")
                   = CountIn(events, LAMBDA e : e.name = "RewardClaimed") + 1
             /\ treasury'.owner = treasury.owner
             /\ treasury'.rewardSigner = treasury.rewardSigner
             /\ treasury'.rewardPerHeartbeat = treasury.rewardPerHeartbeat]_vars

\* C22 witness: the second reward paid to the same user, under a second claim
\* id, has brought the user's earnings and the totals to two rewards
C22_Witness ==
    /\ lastCall.fn = "processReward"
    /\ lastCall.ok
    /\ lastCall.recipient = 1
    /\ treasury.claimedRewards = ClaimIds
    /\ treasury.userTotalEarnings[1] = 2 * RewardPerHeartbeat
    /\ treasury.totalRewardsDistributed = 2 * RewardPerHeartbeat
    /\ treasury.totalClaimsProcessed = 2
    /\ balances[1] = 2 * RewardPerHeartbeat

\* the functions under the onlyOwner modifier
AdminFns ==
    {"setRewardSigner", "setRewardRate", "emergencyWithdraw",
     "transferOwnership"}

\* every admin function called by `a` on the chain state W is reverted for
\* the caller
AdminShut(W, a) ==
    /\ \A n \in Addrs : setRewardSigner(W, a, n).err = "caller is not owner"
    /\ \A r \in Rates : setRewardRate(W, a, r).err = "caller is not owner"
    /\ \A to \in Addrs, amount \in WithdrawAmounts \cup {0} :
          emergencyWithdraw(W, a, to, amount).err = "caller is not owner"
    /\ \A n \in Addrs : transferOwnership(W, a, n).err = "caller is not owner"

\* every admin function called by `a` on the chain state W succeeds when its
\* arguments pass the function's own checks
AdminOpen(W, a) ==
    /\ \A n \in Addrs \ {NullAddr} : setRewardSigner(W, a, n).ok
    /\ \A r \in Rates \ {0} : setRewardRate(W, a, r).ok
    /\ \A to \in Addrs \ {NullAddr, RejectorAddr} :
          emergencyWithdraw(W, a, to, W.bal[TreasuryAddr]).ok
    /\ \A n \in Addrs \ {NullAddr} : transferOwnership(W, a, n).ok

\* C23: setRewardSigner, setRewardRate, emergencyWithdraw and
\* transferOwnership succeed only when the caller is the owner of the
\* moment, and a call by anyone else is reverted and changes nothing; the
\* contract has one owner at any time, which only a successful
\* transferOwnership changes; after transferOwnership(newOwner) the admin
\* calls of the previous owner are reverted and those of the new owner
\* succeed.
C23_AdminOnlyByCurrentOwner ==
    /\ [](/\ treasury.owner \in Addrs \ {NullAddr}
          /\ AdminOpen(World, treasury.owner)
          /\ \A a \in Addrs \ {treasury.owner} : AdminShut(World, a))
    /\ [][/\ lastCall'.fn \in AdminFns =>
               /\ lastCall'.ok => lastCall'.sender = treasury.owner
               /\ lastCall'.sender # treasury.owner =>
                    /\ lastCall'.err = "caller is not owner"
                    /\ LedgerUntouched
          /\ treasury'.owner # treasury.owner =>
               /\ lastCall'.fn = "transferOwnership"
               /\ lastCall'.ok
          /\ (lastCall'.fn = "transferOwnership" /\ lastCall'.ok) =>
               /\ treasury'.owner = lastCall'.recipient
               /\ AdminOpen(World', lastCall'.recipient)
               /\ lastCall'.recipient # treasury.owner
                    => AdminShut(World', treasury.owner)]_vars

\* C23 witness: the deployer has handed the contract to another account, its
\* own admin call has just been reverted, and the rate is one the new owner
\* has set
C23_Witness ==
    /\ treasury.owner = SignerAddr
    /\ lastCall.fn \in AdminFns \ {"transferOwnership"}
    /\ lastCall.sender = DeployerAddr
    /\ lastCall.err = "caller is not owner"
    /\ treasury.rewardPerHeartbeat = 2 * RewardPerHeartbeat
    /\ CountIn(events, LAMBDA e : e.name = "RewardRateUpdated") = 1

\* goroutine w begins an attempt in the step: it enters ProcessReward
Begins(w) == calls[w].pc = "idle" /\ calls'[w].pc # "idle"

\* C24: no settlement is retried. The attempt a heartbeat causes, on a session
\* or over HTTP, submits at most one transaction and acquires at most one
\* sequence number, whether it succeeds or fails; an attempt begins only with
\* a heartbeat, after the outcome of the goroutine's previous attempt was
\* written, and it computes its claim identifier anew from the wallet, the
\* reward and the clock read in that step.
C24_NoAutomaticRetry ==
    /\ [](\A w \in Workers :
            /\ calls[w].sent <= 1
            /\ calls[w].acquired <= 1
            /\ calls[w].rpcs <= 3)
    /\ [][\A w \in Workers :
            /\ calls'[w].sent < calls[w].sent => Begins(w) \/ calls'[w] = Idle
            /\ calls'[w].acquired < calls[w].acquired
                 => Begins(w) \/ calls'[w] = Idle
            /\ Begins(w) =>
                 /\ invoked' = invoked + 1
                 /\ calls'[w].origin \in {"ws", "http"}
                 /\ calls'[w].origin = "ws"
                      => sessions'[w].Heartbeats = sessions[w].Heartbeats + 1
                 /\ calls'[w].sent = 0 /\ calls'[w].acquired = 0
                 /\ calls'[w].claimID =
                      ClaimID(HexToAddress(calls'[w].recipient),
                              calls'[w].amount, clock')
            /\ calls'[w].claimID # calls[w].claimID
                 => Begins(w) \/ calls'[w] = Idle]_vars

\* C24 witness: a session's heartbeat failed at the submission, after one
\* sequence number and one SendTransaction; its outcome was reported, and the
\* session's next heartbeat has begun a new attempt that has acquired its own
\* sequence number
C24_Witness ==
    \E w \in Conns :
      /\ sessions[w].Heartbeats = 2
      /\ CountIn(replies, LAMBDA e : e.for = w /\ ~e.success
                    /\ e.error[1] = "failed to send transaction") = 1
      /\ Len(sendLog) = 1
      /\ calls[w].pc = "send"
      /\ calls[w].acquired = 1
      /\ calls[w].sent = 0

\* the three background loops have returned
LoopsExited ==
    /\ bg.blockMonitor = "exited"
    /\ bg.rewardProcessor = "exited"
    /\ bg.broadcastUpdates = "exited"

\* C25: once the shutdown signal has cancelled the background context,
\* blockMonitor, rewardProcessor and broadcastUpdates each return in the end,
\* whatever the loops were doing when the signal came.
C25_LoopsExitAfterShutdown == bg.cancelled ~> LoopsExited

\* what goroutine w computed its claim ID from
HashedInputs(w) ==
    << HexToAddress(calls[w].recipient), calls[w].amount, calls[w].nanos >>

\* goroutines v and w have both computed their claim ID
BothHashed(v, w) == calls[v].pc = "hashed" /\ calls[w].pc = "hashed"

\* C26: claim IDs computed for the same recipient and amount at different
\* clock readings differ; and over the inputs the program computes claim IDs
\* from, where the amounts have one length in bytes (the configured reward)
\* or the clock readings have (those of one era), the bytes that are hashed
\* determine the recipient, the amount and the clock reading.
C26_ClaimIDInjective ==
    \A v, w \in Hashers :
       BothHashed(v, w) =>
         /\ (HashedInputs(v)[1] = HashedInputs(w)[1]
               /\ HashedInputs(v)[2] = HashedInputs(w)[2]
               /\ calls[v].nanos # calls[w].nanos)
              => calls[v].claimID # calls[w].claimID
         /\ (calls[v].claimID = calls[w].claimID
               /\ \/ Len(BigBytes(calls[v].amount))
                        = Len(BigBytes(calls[w].amount))
                  \/ Len(BigBytes(calls[v].nanos))
                        = Len(BigBytes(calls[w].nanos)))
              => HashedInputs(v) = HashedInputs(w)

\* C26 witness: two claim IDs computed for one recipient, from amounts of
\* different lengths and different clock readings of the same length, differ
C26_Witness ==
    /\ BothHashed(1, 2)
    /\ calls[1].recipient = calls[2].recipient
    /\ Len(BigBytes(calls[1].amount)) # Len(BigBytes(calls[2].amount))
    /\ calls[1].nanos # calls[2].nanos
    /\ Len(BigBytes(calls[1].nanos)) = Len(BigBytes(calls[2].nanos))
    /\ calls[1].claimID # calls[2].claimID

\* the errors ProcessReward returns before it takes a sequence number
EarlyErrors == {"invalid recipient address", "failed to get gas price"}
\* the errors ProcessReward returns after it took a sequence number
LateErrors ==
    {"failed to estimate gas", "failed to sign transaction",
     "failed to send transaction"}

\* C27: the counter is taken back by one exactly once for each attempt that
\* fails after it acquired a sequence number (gas estimation, signing or
\* submission), and never for an attempt that fails before the acquisition
\* or whose submission succeeds; an attempt that acquired a number returns
\* either with its transaction submitted or after that one rollback.
C27_OneRollbackPerLateFailure ==
    /\ [](\A w \in Workers :
            /\ calls[w].rolledBack <= calls[w].acquired
            /\ calls[w].acquired <= 1
            /\ calls[w].rolledBack = 1 => calls[w].err \in LateErrors
            /\ calls[w].pc = "returned" =>
                 /\ calls[w].err \in EarlyErrors \cup LateErrors \cup {""}
                 /\ calls[w].err \in EarlyErrors
                      => calls[w].acquired = 0 /\ calls[w].rolledBack = 0
                 /\ calls[w].err = ""
                      => /\ calls[w].acquired = 1
                         /\ calls[w].sent = 1
                         /\ calls[w].rolledBack = 0
                 /\ calls[w].err \in LateErrors
                      => calls[w].acquired = 1 /\ calls[w].rolledBack = 1)
    /\ [][/\ currentNonce' < currentNonce =>
               /\ currentNonce' = currentNonce - 1
               /\ currentNonce' >= 0
               /\ \E w \in Workers :
                    /\ calls[w].acquired = 1
                    /\ calls[w].rolledBack = 0
                    /\ calls[w].err \in LateErrors
                    /\ calls'[w].rolledBack = 1
                    /\ \A v \in Workers \ {w} : calls'[v] = calls[v]
          /\ \A w \in Workers :
               calls'[w].rolledBack > calls[w].rolledBack
                 => currentNonce' = currentNonce - 1]_vars

\* C27 witness: three attempts have returned, one that failed at the gas
\* price query and never took a number, one that failed at signing and rolled
\* back once, and one that was submitted
C27_Witness ==
    \E u, v, w \in Workers :
      /\ \A x \in {u, v, w} : calls[x].pc = "returned"
      /\ calls[u].err = "failed to get gas price"
      /\ calls[u].acquired = 0
      /\ calls[v].err = "failed to sign transaction"
      /\ calls[v].rolledBack = 1
      /\ calls[w].err = ""
      /\ calls[w].sent = 1
      /\ calls[w].rolledBack = 0

\* goroutine w is about to make, or is inside, a ledger call or the signing
InLedgerCall(w) == calls[w].pc \in {"gasPrice", "estimate", "send"}
\* goroutine w is between Lock and Unlock of nonceMux
InCriticalSection(w) == calls[w].pc \in {"acquire", "rollback"}

\* C28: nonceMux is held only across the read-and-increment or the decrement
\* of the counter, never while a ledger call or the signing is under way; the
\* holder's next step is the counter update that releases the lock and needs
\* nothing from the ledger, so an attempt whose ledger call does not return
\* keeps no other attempt from acquiring a sequence number.
C28_LockNeverHeldAcrossLedgerCall ==
    /\ nonceMux \in Workers \cup {0}
    /\ \A w \in Workers :
         /\ nonceMux = w <=> InCriticalSection(w)
         /\ InLedgerCall(w) => nonceMux # w
         /\ calls[w].pc = "lock" =>
              \/ ENABLED LockForNonce(w)
              \/ /\ nonceMux \in Workers \ {w}
                 /\ ENABLED (AcquireNonce(nonceMux) \/ Rollback(nonceMux))

\* C28 witness: one attempt holds its sequence number and has its submission
\* under way, a second one is inside its gas estimation, and the third has
\* taken the lock to acquire its own number
C28_Witness ==
    \E u, v, w \in Workers :
      /\ calls[u].pc = "send" /\ calls[u].acquired = 1
      /\ calls[v].pc \in {"estimate", "gasPrice"}
      /\ calls[w].pc = "acquire"
      /\ nonceMux = w

\* goroutine w holds a sequence number it acquired: its attempt has neither
\* returned nor given the number back
Holding(w) ==
    /\ calls[w].acquired = 1
    /\ calls[w].rolledBack = 0
    /\ calls[w].pc # "returned"

\* C29: in every reachable state the counter is its initial value plus the
\* number of attempts that hold an acquired sequence number and have not
\* finished plus the number of attempts submitted successfully; it is never
\* below its initial value and never wraps around.
C29_CounterAccountsForAttempts ==
    /\ currentNonce = startNonce
                        + Cardinality({ w \in Workers : Holding(w) })
                        + Cardinality(Sent)
    /\ currentNonce >= startNonce
    /\ currentNonce >= 0

\* C29 witness: one attempt was submitted, one failed and has given its
\* number back, and one holds a number with its ledger call ahead
C29_Witness ==
    /\ Cardinality(Sent) = 1
    /\ \E v, w \in Workers :
         /\ calls[v].pc = "returned" /\ calls[v].rolledBack = 1
         /\ Holding(w) /\ calls[w].err = ""
    /\ currentNonce = startNonce + 2

\* the submissions that succeeded, in the order they were made
Submitted == SelectSeq(sendLog, LAMBDA e : e.ok)

\* no call is inside ProcessReward
Quiet == \A w \in Workers : calls[w].pc \in {"idle", "returned"}

\* C30: when attempts do not overlap in time, then whichever of them fail and
\* wherever, the transactions submitted successfully carry the sequence
\* numbers k, k+1, k+2, ... in the order of their submission, none twice and
\* none left out, and between attempts the counter is k plus the number of
\* successes.
C30_SerialAttemptsUseConsecutiveNonces ==
    /\ \A i \in DOMAIN Submitted : Submitted[i].nonce = startNonce + i - 1
    /\ Quiet => currentNonce = startNonce + Len(Submitted)

\* C30 witness: of three attempts made one after the other the second failed
\* at its submission, and the third was submitted with the number the second
\* gave back
C30_Witness ==
    /\ Quiet
    /\ Len(sendLog) = 3
    /\ sendLog[1].ok /\ ~sendLog[2].ok /\ sendLog[3].ok
    /\ sendLog[2].nonce = sendLog[3].nonce
    /\ currentNonce = startNonce + 2


\* ---- C31
\* C31: at most one goroutine is inside conn.WriteJSON on a given connection
\* at any time: the fan-out's block event, the message loop's reward outcome
\* or pong, and the welcome message of the registration never overlap.
C31_OneWriterPerConnection ==
    \A c \in Workers : Cardinality(writing[c]) <= 1

\* ---- C34
\* the goroutines about to read len(s.clients) with s.clientsMux released
UnlockedReaders ==
    { w \in Workers : calls[w].pc \in {"logTotal", "logRemaining"} }

\* C34: no access to the connection map, the read of its size included, runs
\* while another goroutine is between Lock and Unlock, mutating it.
C34_NoMapAccessDuringMutation ==
    ExclusiveHolders = {} \/ UnlockedReaders = {}

\* ---- C32
RECURSIVE Highest(_)
\* the greatest height of a sequence of heights, 0 for the empty one
Highest(heights) ==
    IF heights = << >> THEN 0
    ELSE LET rest == Highest(Tail(heights))
         IN  IF Head(heights) > rest THEN Head(heights) ELSE rest

\* C32: blockMonitor publishes a snapshot exactly when a poll returns a
\* height above every height observed before (0 at the start); a poll that
\* returns an equal or lower height publishes nothing and changes no state;
\* lastBlock and the cached BlockHeight never decrease.
C32_PublishesExactlyNewHeights ==
    [][ /\ observed' # observed =>
           LET h == observed'[Len(observed')]
           IN  IF h > Highest(observed)
               THEN /\ published' = Append(published, h)
                    /\ blockUpdates' = Append(blockUpdates, h)
                    /\ lastBlock' = h
                    /\ stats'.BlockHeight = h
               ELSE UNCHANGED <<published, blockUpdates, lastBlock, stats>>
        /\ published' # published => observed' # observed
        /\ lastBlock' >= lastBlock
        /\ stats'.BlockHeight >= stats.BlockHeight ]_vars

\* a poll has returned a height below one returned before, and later a new
\* highest height was published
C32_Witness ==
    /\ \E i, j \in 1 .. Len(observed) : i < j /\ observed[j] < observed[i]
    /\ Len(published) >= 2
    /\ observed[Len(observed)] = published[Len(published)]

\* ---- C33
\* the snapshots taken off blockUpdates so far
Drained == Len(published) - Len(blockUpdates)

\* C33: blockUpdates never holds more than its capacity of 100 snapshots; a
\* snapshot is never dropped: the channel holds the published snapshots not
\* yet taken, in publication order, the fan-out takes them from the front,
\* one at a time, and while it runs every published snapshot is taken: again
\* and again all that were published so far have been taken.
C33_QueueBoundedLosslessFifo ==
    /\ [](Len(blockUpdates) <= BlockUpdatesCap)
    /\ [](blockUpdates = SubSeq(published, Drained + 1, Len(published)))
    /\ [][blockUpdates' # blockUpdates =>
            \/ /\ Len(published') = Len(published) + 1
               /\ blockUpdates' = Append(blockUpdates, published'[Len(published')])
            \/ /\ published' = published
               /\ blockUpdates' = Tail(blockUpdates)
               /\ bcast'.block = published[Drained + 1]]_vars
    /\ []<>(Drained = Len(published))

\* the channel is full, the fan-out has taken a snapshot before, and
\* blockMonitor has a further block to publish: its send waits
C33_Witness ==
    /\ Len(blockUpdates) = BlockUpdatesCap
    /\ Drained >= 1
    /\ height > lastBlock

\* ---- C35
\* C35: the two aggregate counters are updated as one step under statsMux:
\* whenever the lock is free, TotalRewards is TotalHeartbeats times the reward
\* per heartbeat, however many HTTP heartbeats run at once.
C35_CountersAgreeWhenUnlocked ==
    statsMux = 0 =>
        stats.TotalRewards = stats.TotalHeartbeats * RewardPerHeartbeat

\* two heartbeats have been counted, the lock is free, and a third goroutine
\* is back from ProcessReward and about to take it
C35_Witness ==
    /\ statsMux = 0
    /\ stats.TotalHeartbeats >= 2
    /\ \E w \in Workers : /\ calls[w].pc = "returned"
                          /\ calls[w].err = ""

\* ---- C36
RECURSIVE SumOver(_, _)
\* the sum of f over the set S
SumOver(f, S) ==
    IF S = {} THEN 0
    ELSE LET a == CHOOSE x \in S : TRUE
         IN  f[a] + SumOver(f, S \ {a})

\* C36: after any sequence of contract operations totalRewardsDistributed is
\* the sum of userTotalEarnings over all addresses, and totalClaimsProcessed
\* is the number of consumed claim ids.
C36_TotalsMatchLedgers ==
    /\ treasury.totalRewardsDistributed
         = SumOver(treasury.userTotalEarnings, Addrs)
    /\ treasury.totalClaimsProcessed = Cardinality(treasury.claimedRewards)

\* two claims were paid, to two different recipients, the second in a batch
C36_Witness ==
    /\ treasury.totalClaimsProcessed = 2
    /\ Cardinality({ a \in Addrs : treasury.userTotalEarnings[a] > 0 }) = 2
    /\ lastCall.fn = "batchProcessRewards"
    /\ lastCall.ok

\* ---- C37
\* the amounts of the events called `name`, each counted as often as it was
\* emitted
AmountsOf(name) ==
    LET S == { e \in BagToSet(events) : e.name = name }
    IN  SumOver([e \in S |-> e.amount * events[e]], S)

\* what the constructor, fundTreasury and receive took in
Deposited == AmountsOf("TreasuryFunded")
\* what emergencyWithdraw paid out
Withdrawn == AmountsOf("EmergencyWithdrawal")

\* C37: funds are conserved: the contract's balance, the rewards distributed
\* and the withdrawals together are what was deposited; and a fundTreasury or
\* receive call changes neither the distributed total nor the claims count nor
\* any user's earnings.
C37_FundsConserved ==
    /\ [](balances[TreasuryAddr] + treasury.totalRewardsDistributed + Withdrawn
            = Deposited)
    /\ [][lastCall'.fn \in {"fundTreasury", "receive"} =>
            /\ treasury'.totalRewardsDistributed
                 = treasury.totalRewardsDistributed
            /\ treasury'.totalClaimsProcessed = treasury.totalClaimsProcessed
            /\ treasury'.userTotalEarnings = treasury.userTotalEarnings]_vars

\* after a deposit by each of the three ways, a reward to a user, a reward to
\* the contract itself and a withdrawal
C37_Witness ==
    /\ \E e \in BagToSet(events) :
          e.name = "TreasuryFunded" /\ e.who = DeployerAddr /\ events[e] >= 2
    /\ lastCall.fn = "receive" /\ lastCall.ok /\ lastCall.amount > 0
    /\ treasury.userTotalEarnings[1] > 0
    /\ treasury.userTotalEarnings[TreasuryAddr] > 0
    /\ Withdrawn > 0

\* ---- C38
RECURSIVE Singles(_, _, _, _, _, _)
\* processReward called by sender for the entries from i on, one call after
\* another, up to the first that fails
Singles(W, sender, recipients, amounts, claimIds, i) ==
    IF i > Len(recipients) THEN Succeeded(W)
    ELSE LET r == processReward(W, sender, recipients[i], amounts[i],
                                claimIds[i])
         IN  IF ~r.ok THEN Reverted(W, r.err)
             ELSE Singles(r.W, sender, recipients, amounts, claimIds, i + 1)

\* the batches of 1 to 100 entries whose three arrays are of equal length
EqualBatches ==
    { b \in BatchInputs :
        /\ Len(b.recipients) = Len(b.amounts)
        /\ Len(b.amounts) = Len(b.claimIds)
        /\ Len(b.recipients) \in 1 .. MaxBatchSize }

\* what batchProcessRewards does with batch b in the current state
AsBatch(b) ==
    batchProcessRewards(World, b.sender, b.recipients, b.amounts, b.claimIds)

\* what processReward, called for each entry of b in turn, does in the
\* current state
AsSingles(b) == Singles(World, b.sender, b.recipients, b.amounts, b.claimIds, 1)

\* C38 as stated: batchProcessRewards over e1..en succeeds exactly when
\* processReward on e1, ..., en one after another from the same state would
\* succeed for every entry, and then leaves the same state.
C38_BatchIsSequenceOfSingles ==
    \A b \in EqualBatches :
        /\ AsBatch(b).ok = AsSingles(b).ok
        /\ AsBatch(b).ok => AsBatch(b).W = AsSingles(b).W

\* C38, amended: batchProcessRewards over e1..en succeeds exactly when the
\* contract's balance covers the sum of the amounts and processReward on e1,
\* ..., en one after another from the same state would succeed for every
\* entry, and then leaves the same state.
C38_BatchIsCoveredSequenceOfSingles ==
    \A b \in EqualBatches :
        /\ AsBatch(b).ok = (/\ AsSingles(b).ok
                            /\ SumSeq(b.amounts) <= balances[TreasuryAddr])
        /\ AsBatch(b).ok => AsBatch(b).W = AsSingles(b).W

\* a batch of two entries has just succeeded, one of them paid to the
\* contract itself
C38_Witness ==
    /\ lastCall.fn = "batchProcessRewards"
    /\ lastCall.ok
    /\ lastCall.lengths = <<2, 2, 2>>
    /\ treasury.userTotalEarnings[TreasuryAddr] > 0

\* ---- C39
\* the sessions that can take a heartbeat message and have no wallet bound
Unbound ==
    { w \in Conns : /\ ENABLED WSHeartbeat(w)
                    /\ sessions[w].WalletAddress = EmptyString }

\* C39: a heartbeat message on a session with no wallet bound changes
\* nothing: no ledger call is made, no sequence number acquired, and the
\* session's heartbeat count, its earnings and every global counter stay as
\* they are.
C39_HeartbeatWithoutWalletIsNoOp ==
    \A w \in Unbound : ~ENABLED <<WSHeartbeat(w)>>_vars

\* a session without a wallet can take a heartbeat message while HTTP
\* heartbeats have been counted
C39_Witness ==
    /\ Unbound # {}
    /\ stats.TotalHeartbeats > 0

\* ---- C40
RECURSIVE SuccessfulWei(_)
\* the sum of reward_wei over the successful messages of a sequence
SuccessfulWei(messages) ==
    IF messages = << >> THEN 0
    ELSE SuccessfulWei(Tail(messages))
         + (IF Head(messages).success THEN RewardWei(Head(messages), 0)
            ELSE 0)

\* C40: in the browser the session's heartbeat count and earnings grow only
\* when a reward message with success = true is handled, the earnings are
\* the sum of reward_wei over the successful messages handled, and a failed
\* reward message leaves both as they are.
C40_BrowserCountsSuccessesOnly ==
    /\ [](browser.sessionEarnings = SuccessfulWei(browser.handled))
    /\ [][(\/ browser'.heartbeatCount > browser.heartbeatCount
           \/ browser'.sessionEarnings > browser.sessionEarnings)
          => /\ Len(browser'.handled) = Len(browser.handled) + 1
             /\ browser'.handled[Len(browser'.handled)].success]_vars
====
